---- MODULE Spec2Model ----
(***************************************************************************)
(* A model of the STEM sublattice-displacement program: the FFT separation *)
(* estimator, build_sublattices, compute_b_displacements, run_pipeline,    *)
(* compute_strain_from_displacement, create_convex_hull_mask and           *)
(* save_strain_maps.                                                       *)
(*                                                                         *)
(* Each component is exercised by a specification of its own              *)
(* (SpecDisp, SpecFFT, Spec, SpecStrain); the variables of the other       *)
(* components stay at their idle values.  Coordinates are integers;        *)
(* rational quantities are carried over a stated common denominator.       *)
(***************************************************************************)
EXTENDS Integers, Sequences, FiniteSets, TLC

VARIABLES
    \* compute_b_displacements (core/lattice.py)
    refined_b_positions,   \* argument R: sequence of <<x, y>>
    ideal_b_positions,     \* argument I: sequence of <<x, y>>
    empty_ndim,            \* ndim of an argument that holds no point: 1 or 2
    deltas,                \* returned columns [dx |-> seq, dy |-> seq]
    matched_idx,           \* idx returned by tree.query (<< >> until the call)
    disp_pc,               \* "idle" | "pending" | "returned" | "raised"
    \* _estimate_separation_from_fft (core/lattice.py)
    mag,                   \* |fftshift(fft2(image))|, a function of the pixel <<y, x>>
    image_shape,           \* <<h, w>> of the image and of its spectrum
    num_peaks,             \* argument num_peaks
    min_radius,            \* argument min_radius
    flat_indices,          \* the pixels argpartition selected
    fft_result,            \* the returned value: None, or Some(the candidate periods)
    fft_pc,                \* "idle" | "pending" | "returned" | "raised"
    \* run_pipeline (core/pipeline.py) and build_sublattices (core/lattice.py)
    pc,                    \* the statement run_pipeline is at
    args,                  \* [image_path, separation, nm_per_pixel, output_dir]
    img,                   \* <<h, w>> of the preprocessed image
    sep,                   \* local sep
    estimate,              \* how the estimator call ended, None before it
    refine_log,            \* <<call, outcome>> of each refinement call made
    calls,                 \* the calls made so far, in order
    zone_axes,             \* sub_a.zones_axis_average_distances
    peaks_a,               \* sub_a.atom_positions
    ideal_b,               \* ideal_b_positions returned by build_sublattices
    peaks_b,               \* sub_b.atom_positions
    disp,                  \* the displacement dict
    strain,                \* the strain dict
    out_dir,               \* local out_dir
    fs,                    \* [dirs |-> directories made, files |-> files written]
    save_i,                \* index of the next output file in the try block
    error,                 \* the exception that left run_pipeline, or None
    result,                \* the returned PipelineResult, or None
    \* create_convex_hull_mask (core/viz_utils.py), called on its own
    mask_points,           \* argument points: sequence of <<x, y>>
    mask_shape,            \* argument grid_shape: <<rows, cols>>
    masks,                 \* the mask returned for each shrink_margin called so far
    \* compute_strain_from_displacement (core/metrics.py), save_strain_maps (core/viz.py)
    strain_pc,             \* "pending", "computed", "raised", "saved"
    strain_points,         \* argument points: sequence of <<x, y>>
    strain_field,          \* the affine field the arguments dx, dy sample
    strain_image_shape,    \* argument image_shape: <<h, w>>
    strain_data,           \* the returned dictionary, or None
    strain_maps,           \* the data array save_strain_maps draws for each component
    strain_files,          \* files written by save_strain_maps
    strain_spacing,        \* <<dx_spacing, dy_spacing>> handed to np.gradient, each <<num, den>>
    \* compute_statistics (core/stats.py)
    stats_pc,              \* "pending", "returned", "raised"
    stats_d,               \* arguments dx, dy: sequence of <<dx, dy>>
    stats_nm,              \* argument nm_per_pixel: None or Some(scale)
    stats_result,          \* the returned dictionary, or None
    \* two run_pipeline invocations in one process (core/pipeline.py, core/viz.py)
    run_pc,                \* per invocation: index of its next statement
    gcf,                   \* pyplot's open figures, the current one last; a figure is what was drawn on it
    run_files,             \* the file system: <<directory, name>> -> content
    run_results,           \* per invocation: the returned result, or None
    \* preprocess_image (core/preprocess.py)
    pre_pc,                \* "pending", "returned", "raised"
    pre_args,              \* roi, background_sigma, gaussian_sigma
    pre_image,             \* the pixel values of the argument image at the call
    pre_heap,              \* array storage: sequence of buffers, the argument's first
    pre_result,            \* the returned array (buffer and window), or None
    \* the batch runner main (tests/test_pipeline.py)
    batch_pc,              \* "mkdir", "preview", "run", "summary", "finished", "aborted"
    files,                 \* per input file what its stages would do
    batch_i,               \* index in files of the file the loop is at
    previews,              \* indices of the files whose raw.png was written
    succeeded,             \* the list succeeded, as indices of files
    failed,                \* the list failed, as <<index, exception>>
    \* MainWindow and Worker (ui_qt/main_window.py)
    gui_image_path,        \* self.image_path: None or Some(path)
    gui_result,            \* self.result: None or Some(the stored result)
    gui_output_dir,        \* self.output_dir: None or Some(directory)
    btn_run_enabled,       \* whether the Run button is enabled
    gui_message,           \* the dialog or status shown last
    gui_runs,              \* the workers started, in order: arguments, state, emissions of finished
    gui_signals,           \* finished signals queued for the main thread: <<run, result, error>>
    gui_fs                 \* the writes made: <<directory, image the outputs were computed from>>

batchVars == <<batch_pc, files, batch_i, previews, succeeded, failed>>

guiVars == <<gui_image_path, gui_result, gui_output_dir, btn_run_enabled, gui_message, gui_runs, gui_signals, gui_fs>>

maskVars == <<mask_points, mask_shape, masks>>

statsVars == <<stats_pc, stats_d, stats_nm, stats_result>>

runsVars == <<run_pc, gcf, run_files, run_results>>

preVars == <<pre_pc, pre_args, pre_image, pre_heap, pre_result>>

strainVars == <<strain_pc, strain_points, strain_field, strain_image_shape,
                strain_data, strain_maps, strain_files, strain_spacing>>

pipeVars == <<pc, args, img, sep, estimate, refine_log, calls, zone_axes, peaks_a, ideal_b, peaks_b, disp, strain,
              out_dir, fs, save_i, error, result>>

fftVars == <<mag, image_shape, num_peaks, min_radius, flat_indices, fft_result, fft_pc>>

dispVars == <<refined_b_positions, ideal_b_positions, empty_ndim, deltas, matched_idx,
              disp_pc>>

notDispVars == <<fftVars, pipeVars, maskVars, strainVars, statsVars, runsVars, preVars, batchVars, guiVars>>
notFftVars == <<dispVars, pipeVars, maskVars, strainVars, statsVars, runsVars, preVars, batchVars, guiVars>>
notPipeVars == <<dispVars, fftVars, maskVars, strainVars, statsVars, runsVars, preVars, batchVars, guiVars>>
notMaskVars == <<dispVars, fftVars, pipeVars, strainVars, statsVars, runsVars, preVars, batchVars, guiVars>>
notStrainVars == <<dispVars, fftVars, pipeVars, maskVars, statsVars, runsVars, preVars, batchVars, guiVars>>
notStatsVars == <<dispVars, fftVars, pipeVars, maskVars, strainVars, runsVars, preVars, batchVars, guiVars>>
notRunsVars == <<dispVars, fftVars, pipeVars, maskVars, strainVars, statsVars, preVars, batchVars, guiVars>>
notPreVars == <<dispVars, fftVars, pipeVars, maskVars, strainVars, statsVars, runsVars, batchVars, guiVars>>
notBatchVars == <<dispVars, fftVars, pipeVars, maskVars, strainVars, statsVars, runsVars, preVars, guiVars>>
notGuiVars == <<dispVars, fftVars, pipeVars, maskVars, strainVars, statsVars, runsVars, preVars, batchVars>>

vars == <<dispVars, fftVars, pipeVars, maskVars, strainVars, statsVars, runsVars, preVars, batchVars, guiVars>>

\* Python's None is the empty sequence; a value x that may be None is <<x>>.
None == << >>

Some(x) == <<x>>

Val(o) == o[1]

(***************************************************************************)
(* compute_b_displacements                                                 *)
(***************************************************************************)

\* Longest point array drawn as an input of compute_b_displacements.
DispMaxLen == 2

\* Input coordinates of compute_b_displacements: two rows of columns, the
\* lower row one column shorter.
DispPoints == ((0..3) \X (0..1)) \ {<<3, 0>>}

SeqsUpTo(S, n) == UNION {[1..k -> S] : k \in 0..n}

\* Squared Euclidean distance, the order cKDTree.query minimises.
Dist2(p, q) == (p[1] - q[1]) * (p[1] - q[1]) + (p[2] - q[2]) * (p[2] - q[2])

\* A query that ignores the distance and pairs the point with the first entry.
QueryFirst(tree, q) == {1}

\* tree.query(q, k=1): the index of a nearest point of the tree.  Which of
\* several equidistant points is returned depends on the tree's layout.
Query(tree, q) ==
    {k \in 1..Len(tree) : \A k2 \in 1..Len(tree) : Dist2(q, tree[k]) <= Dist2(q, tree[k2])}

\* The index arrays tree.query may return for all of R.
QueryAll(tree, R) == {idx \in [1..Len(R) -> 1..Len(tree)] : \A j \in 1..Len(R) : idx[j] \in Query(tree, R[j])}

\* A difference taken from the refined point to the ideal one.
DeltasReversed(R, I, idx) ==
    [dx |-> [j \in 1..Len(R) |-> I[idx[j]][1] - R[j][1]],
     dy |-> [j \in 1..Len(R) |-> I[idx[j]][2] - R[j][2]]]

\* deltas = refined_b_positions - ideal_b_positions[idx]; returns the columns.
Deltas(R, I, idx) ==
    [dx |-> [j \in 1..Len(R) |-> R[j][1] - I[idx[j]][1]],
     dy |-> [j \in 1..Len(R) |-> R[j][2] - I[idx[j]][2]]]

NoDeltas == [dx |-> << >>, dy |-> << >>]

\* The two layouts of an array without points: np.array([]) has one axis,
\* np.empty((0, 2)) has two.
EmptyLayouts == {1, 2}

DispIdle ==
    /\ refined_b_positions = << >>
    /\ ideal_b_positions = << >>
    /\ empty_ndim = 2
    /\ deltas = NoDeltas
    /\ matched_idx = << >>
    /\ disp_pc = "idle"

FftIdle ==
    /\ mag = << >>
    /\ image_shape = <<0, 0>>
    /\ num_peaks = 0
    /\ min_radius = 0
    /\ flat_indices = {}
    /\ fft_result = None
    /\ fft_pc = "idle"

NoDisp == [dx |-> << >>, dy |-> << >>, mag |-> << >>, dx_nm |-> None, dy_nm |-> None, mag_nm |-> None]

PipeIdle ==
    /\ pc = "idle"
    /\ args = [image_path |-> << >>, separation |-> None, nm_per_pixel |-> None, output_dir |-> None]
    /\ img = <<0, 0>>
    /\ sep = None
    /\ estimate = None
    /\ refine_log = << >>
    /\ calls = << >>
    /\ zone_axes = << >>
    /\ peaks_a = << >>
    /\ ideal_b = << >>
    /\ peaks_b = << >>
    /\ disp = NoDisp
    /\ strain = << >>
    /\ out_dir = None
    /\ fs = [dirs |-> {}, files |-> {}]
    /\ save_i = 0
    /\ error = None
    /\ result = None

MaskIdle ==
    /\ mask_points = << >>
    /\ mask_shape = <<0, 0>>
    /\ masks = << >>

BatchIdle ==
    /\ batch_pc = "idle"
    /\ files = << >>
    /\ batch_i = 0
    /\ previews = {}
    /\ succeeded = << >>
    /\ failed = << >>

GuiIdle ==
    /\ gui_image_path = None
    /\ gui_result = None
    /\ gui_output_dir = None
    /\ btn_run_enabled = TRUE
    /\ gui_message = "idle"
    /\ gui_runs = << >>
    /\ gui_signals = << >>
    /\ gui_fs = {}

PreIdle ==
    /\ pre_pc = "idle"
    /\ pre_args = << >>
    /\ pre_image = << >>
    /\ pre_heap = << >>
    /\ pre_result = None

RunsIdle ==
    /\ run_pc = << >>
    /\ gcf = << >>
    /\ run_files = << >>
    /\ run_results = << >>

StatsIdle ==
    /\ stats_pc = "idle"
    /\ stats_d = << >>
    /\ stats_nm = None
    /\ stats_result = None

StrainIdle ==
    /\ strain_pc = "idle"
    /\ strain_points = << >>
    /\ strain_field = << >>
    /\ strain_image_shape = <<0, 0>>
    /\ strain_data = None
    /\ strain_maps = None
    /\ strain_files = {}
    /\ strain_spacing = None

DispInit ==
    /\ FftIdle
    /\ PipeIdle
    /\ MaskIdle
    /\ StrainIdle
    /\ StatsIdle
    /\ RunsIdle
    /\ PreIdle
    /\ BatchIdle
    /\ GuiIdle
    /\ refined_b_positions \in SeqsUpTo(DispPoints, DispMaxLen)
    /\ ideal_b_positions \in SeqsUpTo(DispPoints, DispMaxLen)
    /\ empty_ndim \in IF Len(refined_b_positions) = 0 \/ Len(ideal_b_positions) = 0
                      THEN EmptyLayouts ELSE {2}
    /\ deltas = NoDeltas
    /\ matched_idx = << >>
    /\ disp_pc = "pending"

\* The three failures of the body.  cKDTree refuses data that is not
\* two-dimensional, which is what np.array([]) of shape (0,) is; query refuses
\* points whose last axis is not 2; and on an empty tree query answers every
\* point with the index n = 0, which is out of range for the empty array.  An
\* empty array of shape (0, 2) passes the first two.
DispRaises ==
    \/ Len(ideal_b_positions) = 0 /\ empty_ndim = 1
    \/ Len(refined_b_positions) = 0 /\ empty_ndim = 1
    \/ Len(ideal_b_positions) = 0 /\ Len(refined_b_positions) > 0

compute_b_displacements_empty ==
    /\ disp_pc = "pending"
    /\ DispRaises
    /\ disp_pc' = "raised"
    /\ UNCHANGED <<refined_b_positions, ideal_b_positions, empty_ndim, matched_idx, deltas>>
    /\ UNCHANGED notDispVars

compute_b_displacements ==
    /\ disp_pc = "pending"
    /\ ~DispRaises
    /\ disp_pc' = "returned"
    /\ \E idx \in QueryAll(ideal_b_positions, refined_b_positions) :
        /\ matched_idx' = idx
        /\ deltas' = Deltas(refined_b_positions, ideal_b_positions, idx)
    /\ UNCHANGED <<refined_b_positions, ideal_b_positions, empty_ndim>>
    /\ UNCHANGED notDispVars

DispNext == compute_b_displacements \/ compute_b_displacements_empty

SpecDisp == DispInit /\ [][DispNext]_vars

DispDone == disp_pc = "returned"

\* C18: a call with an empty ideal point set I fails with an error and never
\* returns displacement arrays.
C18_EmptyIdealFails ==
    Len(ideal_b_positions) = 0 => disp_pc # "returned"

\* C1: for every index j of R, in R's order and one entry per point of R,
\* (dx[j], dy[j]) is R[j] minus a point of I at minimal Euclidean distance
\* from R[j] among all points of I.
C1_NearestAligned ==
    DispDone =>
        /\ DOMAIN deltas.dx = 1..Len(refined_b_positions)
        /\ DOMAIN deltas.dy = 1..Len(refined_b_positions)
        /\ \A j \in 1..Len(refined_b_positions) :
            \E k \in 1..Len(ideal_b_positions) :
                /\ deltas.dx[j] = refined_b_positions[j][1] - ideal_b_positions[k][1]
                /\ deltas.dy[j] = refined_b_positions[j][2] - ideal_b_positions[k][2]
                /\ \A k2 \in 1..Len(ideal_b_positions) :
                    Dist2(refined_b_positions[j], ideal_b_positions[k])
                        <= Dist2(refined_b_positions[j], ideal_b_positions[k2])

\* A call on two points whose nearest ideal points are not the ones at their
\* own index, so that alignment with R and the nearest match both matter.
C1_Witness ==
    /\ DispDone
    /\ Len(refined_b_positions) = 2
    /\ Len(ideal_b_positions) = 2
    /\ matched_idx = <<2, 1>>
    /\ Dist2(refined_b_positions[1], ideal_b_positions[2])
         < Dist2(refined_b_positions[1], ideal_b_positions[1])
    /\ Dist2(refined_b_positions[2], ideal_b_positions[1])
         < Dist2(refined_b_positions[2], ideal_b_positions[2])
    /\ deltas.dx[1] # deltas.dx[2]

\* C14: if R and I have the same length and every R[i] is I[i] plus one
\* vector v shorter than half the smallest distance between two distinct
\* ideal points, the returned (dx[i], dy[i]) is v for every i.
C14_UniformOffsetRecovered ==
    (DispDone /\ Len(refined_b_positions) = Len(ideal_b_positions)
        /\ Len(refined_b_positions) > 0) =>
        LET v == <<refined_b_positions[1][1] - ideal_b_positions[1][1],
                   refined_b_positions[1][2] - ideal_b_positions[1][2]>>
        IN  (/\ \A i \in DOMAIN refined_b_positions :
                    /\ refined_b_positions[i][1] = ideal_b_positions[i][1] + v[1]
                    /\ refined_b_positions[i][2] = ideal_b_positions[i][2] + v[2]
             /\ \A i, j \in DOMAIN ideal_b_positions :
                    ideal_b_positions[i] # ideal_b_positions[j] =>
                        4 * (v[1] * v[1] + v[2] * v[2])
                            < (ideal_b_positions[i][1] - ideal_b_positions[j][1])
                                * (ideal_b_positions[i][1] - ideal_b_positions[j][1])
                              + (ideal_b_positions[i][2] - ideal_b_positions[j][2])
                                * (ideal_b_positions[i][2] - ideal_b_positions[j][2]))
            => \A i \in DOMAIN refined_b_positions :
                    deltas.dx[i] = v[1] /\ deltas.dy[i] = v[2]

\* Two distinct ideal points, both refined points shifted by one pixel along
\* x, and the displacements returned.
C14_Witness ==
    /\ DispDone
    /\ ideal_b_positions = <<<<0, 0>>, <<2, 1>>>>
    /\ refined_b_positions = <<<<1, 0>>, <<3, 1>>>>
    /\ deltas = [dx |-> <<1, 1>>, dy |-> <<0, 0>>]

(***************************************************************************)
(* _estimate_separation_from_fft                                           *)
(***************************************************************************)

\* Largest spectrum magnitude drawn as an input.
MaxMag == 2

\* Largest num_peaks drawn as an input.
MaxNumPeaks == 3

\* Largest min_radius drawn as an input.
MaxMinRadius == 1

\* Image shapes <<h, w>> drawn as inputs.
FftShapes == {<<1, 1>>, <<2, 3>>, <<3, 3>>}

Pixels(shape) == (0..(shape[1] - 1)) \X (0..(shape[2] - 1))

\* cy, cx = h // 2, w // 2: the pixel fftshift moves the zero frequency to.
Centre(shape) == <<shape[1] \div 2, shape[2] \div 2>>

\* The pixel holding the conjugate frequency of p in the shifted spectrum.
Conjugate(shape, p) ==
    <<(2 * Centre(shape)[1] - p[1]) % shape[1], (2 * Centre(shape)[2] - p[2]) % shape[2]>>

\* np.abs(fftshift(fft2(image))) of a real image: non-negative and equal at
\* conjugate frequencies; every such array is the spectrum of a real image.
Spectra(shape) ==
    {m \in [Pixels(shape) -> 0..MaxMag] : \A p \in Pixels(shape) : m[p] = m[Conjugate(shape, p)]}

\* (yy - cy) ** 2 + (xx - cx) ** 2, also the square of
\* np.linalg.norm(coords - [cy, cx]).
CentreDist2(shape, p) == Dist2(p, Centre(shape))

\* mag_masked: a copy of mag with 0 inside the disc of radius min_radius.
MagMasked(m, shape, r) ==
    [p \in Pixels(shape) |-> IF CentreDist2(shape, p) <= r * r THEN 0 ELSE m[p]]

\* A selection of one largest pixel, whatever n.
ArgPartitionTopOne(a, shape, n) ==
    {{p} : p \in {q \in Pixels(shape) : \A r \in Pixels(shape) : a[q] >= a[r]}}

\* np.argpartition(a.ravel(), -n)[-n:]: n pixels none of which is smaller than
\* an unselected one (equal values in either part); -0 slices the whole array.
ArgPartitionTop(a, shape, n) ==
    IF n = 0
    THEN {Pixels(shape)}
    ELSE {S \in SUBSET Pixels(shape) :
            /\ Cardinality(S) = n
            /\ \A p \in S : \A q \in Pixels(shape) \ S : a[p] >= a[q]}

\* A filter that keeps the zero distance too.
KeepDistanceNonNegative(d2) == d2 >= 0

\* distances = distances[distances > 0], on the squared distance.
KeepDistance(d2) == d2 > 0

\* The candidate periods h / d and w / d of the kept distances, each as
\* <<numerator, squared distance>>.
Periods(shape, kept) ==
    {<<shape[1], CentreDist2(shape, p)>> : p \in kept} \cup {<<shape[2], CentreDist2(shape, p)>> : p \in kept}

FftInit ==
    /\ DispIdle
    /\ PipeIdle
    /\ MaskIdle
    /\ StrainIdle
    /\ StatsIdle
    /\ RunsIdle
    /\ PreIdle
    /\ BatchIdle
    /\ GuiIdle
    /\ image_shape \in FftShapes
    /\ mag \in Spectra(image_shape)
    /\ num_peaks \in 0..MaxNumPeaks
    /\ min_radius \in 0..MaxMinRadius
    /\ flat_indices = {}
    /\ fft_result = None
    /\ fft_pc = "pending"

\* argpartition rejects a kth beyond the array: ValueError.
estimate_separation_kth_out_of_bounds ==
    /\ fft_pc = "pending"
    /\ num_peaks > Cardinality(Pixels(image_shape))
    /\ fft_pc' = "raised"
    /\ UNCHANGED <<mag, image_shape, num_peaks, min_radius, flat_indices, fft_result>>
    /\ UNCHANGED notFftVars

estimate_separation_from_fft ==
    /\ fft_pc = "pending"
    /\ num_peaks <= Cardinality(Pixels(image_shape))
    /\ \E S \in ArgPartitionTop(MagMasked(mag, image_shape, min_radius), image_shape, num_peaks) :
        LET kept == {p \in S : KeepDistance(CentreDist2(image_shape, p))}
        IN  /\ flat_indices' = S
            /\ fft_result' = IF kept = {} THEN None ELSE Some(Periods(image_shape, kept))
    /\ fft_pc' = "returned"
    /\ UNCHANGED <<mag, image_shape, num_peaks, min_radius>>
    /\ UNCHANGED notFftVars

FftNext == estimate_separation_from_fft \/ estimate_separation_kth_out_of_bounds

SpecFFT == FftInit /\ [][FftNext]_vars

\* C27: for num_peaks >= 2 and an image of at least num_peaks pixels the
\* call returns, and what it returns is never the failure signal: the mean
\* is taken over at least one candidate period and every candidate is a
\* positive size over a positive distance, whatever the image content.
C27_EstimateAlwaysPositive ==
    (fft_pc # "pending" /\ num_peaks >= 2
        /\ num_peaks <= Cardinality(Pixels(image_shape))) =>
        /\ fft_pc = "returned"
        /\ fft_result # None
        /\ Val(fft_result) # {}
        /\ \A period \in Val(fft_result) : period[1] > 0 /\ period[2] > 0

\* The spectrum of a constant image, non-zero at the zero frequency only,
\* with the centre among the selected pixels.
C27_Witness ==
    /\ fft_pc = "returned"
    /\ num_peaks >= 2
    /\ Centre(image_shape) \in flat_indices
    /\ mag[Centre(image_shape)] > 0
    /\ \A p \in Pixels(image_shape) \ {Centre(image_shape)} : mag[p] = 0
    /\ fft_result # None

\* C19: every pixel that contributes a candidate period to the returned mean
\* lies strictly farther than min_radius from the spectrum centre; a pixel
\* inside the DC-exclusion disc is never selected as a peak.
C19_PeaksOutsideDisc ==
    fft_pc = "returned" =>
        \A p \in flat_indices :
            KeepDistance(CentreDist2(image_shape, p)) =>
                CentreDist2(image_shape, p) > min_radius * min_radius

\* C3: whenever no peak remains after filtering (every selected peak lies at
\* distance zero from the spectrum centre, or none was selected) the estimator
\* returns the failure signal None.
C3_NoPeaksGivesNone ==
    (fft_pc = "returned" /\ \A p \in flat_indices : CentreDist2(image_shape, p) = 0)
        => fft_result = None

\* A return where the only selected peak is the centre pixel of a spectrum
\* larger than one pixel.
C3_Witness ==
    /\ fft_pc = "returned"
    /\ Cardinality(Pixels(image_shape)) > 1
    /\ flat_indices = {Centre(image_shape)}
    /\ fft_result = None

(***************************************************************************)
(* run_pipeline and build_sublattices                                      *)
(***************************************************************************)

\* Largest separation drawn as an argument or as an estimate.
MaxSeparation == 2

\* Most zone axes construct_zone_axes reports.
MaxZoneAxes == 3

\* num_peaks: int = 6, the estimator's default, which run_pipeline relies on.
DefaultNumPeaks == 6

\* Shapes <<h, w>> of the preprocessed image: one too small for the estimator
\* and for any lattice, one holding a 3 x 3 lattice of A columns.
PipeShapes == {<<2, 2>>, <<5, 5>>}

SeparationArgs == {None} \cup {Some(x) : x \in 0..MaxSeparation}

ScaleArgs == {None, Some(0), Some(2)}

OutputDirArgs == {None, Some(<<"out">>)}

PipelineArgs ==
    [image_path : {<<"data", "a">>}, separation : SeparationArgs, nm_per_pixel : ScaleArgs,
     output_dir : OutputDirArgs]

\* Path(image_path).stem
Stem(path) == path[Len(path)]

\* What _estimate_separation_from_fft(img) does with its default arguments:
\* argpartition raises when the image has fewer than num_peaks pixels;
\* otherwise num_peaks pixels are selected, at most one of them the centre,
\* and None is returned only if none of them is off the centre.
EstimatorOutcomes(shape) ==
    IF DefaultNumPeaks > shape[1] * shape[2]
    THEN {<<"ValueError">>}
    ELSE UNION {IF off = 0 THEN {<<"return", None>>}
                ELSE {<<"return", Some(x)>> : x \in 1..MaxSeparation} :
                    off \in (DefaultNumPeaks - 1)..DefaultNumPeaks}

\* sep is None or sep <= 0
SeparationUnusable(s) == IF s = None THEN TRUE ELSE Val(s) <= 0

\* am.get_atom_positions: the A columns found in the image, a lattice of
\* spacing 2 from the origin, row by row.
LatticeSide(shape) == (shape[1] + 1) \div 2

AtomPositions(shape) ==
    LET n == LatticeSide(shape)
    IN  IF n < 2 THEN <<<<0, 0>>>>
        ELSE [k \in 1..(n * n) |-> <<2 * ((k - 1) % n), 2 * ((k - 1) \div n)>>]

Range(f) == {f[k] : k \in DOMAIN f}

Plus(p, q) == <<p[1] + q[1], p[2] + q[2]>>

\* The translations between neighbouring columns construct_zone_axes can find.
ZoneVectors(A) ==
    {v \in {<<2, 0>>, <<0, 2>>, <<2, 2>>} : \E p \in Range(A) : Plus(p, v) \in Range(A)}

\* sub_a.zones_axis_average_distances: distinct translations, possibly fewer
\* than the lattice has when the peak detection is poor.
ZoneAxesOptions(A) ==
    {z \in SeqsUpTo(ZoneVectors(A), MaxZoneAxes) : \A a, b \in DOMAIN z : a # b => z[a] # z[b]}

\* len(sub_a.zones_axis_average_distances) < 2
InsufficientZoneAxes(z) == Len(z) < 2

\* A selection that takes the first axis twice.
ZonePairFirstTwice(z) == <<z[1], z[1]>>

\* za0, za1 = the first two zone axes
ZonePair(z) == <<z[1], z[2]>>

RECURSIVE MiddleFrom(_, _, _, _)
\* an_tools.get_middle_position_list: for each atom, in order, that has a
\* neighbour along za0, one along za1 and the fourth corner, the mean of the four.
MiddleFrom(A, za, k, acc) ==
    IF k > Len(A) THEN acc
    ELSE LET p == A[k]
             corners == {Plus(p, za[1]), Plus(p, za[2]), Plus(Plus(p, za[1]), za[2])}
         IN  IF corners \subseteq Range(A)
             THEN MiddleFrom(A, za, k + 1,
                    Append(acc, <<(4 * p[1] + 2 * za[1][1] + 2 * za[2][1]) \div 4,
                                  (4 * p[2] + 2 * za[1][2] + 2 * za[2][2]) \div 4>>))
             ELSE MiddleFrom(A, za, k + 1, acc)

MiddlePositionList(A, za) == MiddleFrom(A, za, 1, << >>)

\* The displacement fields a refinement may leave on the B columns.
OffsetFields(n) ==
    {[j \in 1..n |-> o] : o \in {<<0, 0>>, <<1, -1>>}}
        \cup {[j \in 1..n |-> IF j = 1 THEN <<2, 0>> ELSE <<0, 0>>]}

\* The positions a refinement of the columns seeded at the ideal positions
\* returns: same cardinality, position j refines ideal position j.
RefinedOptions(ideal) ==
    {[j \in 1..Len(ideal) |-> Plus(ideal[j], f[j])] : f \in OffsetFields(Len(ideal))}

\* The ways a refinement call ends: normally, with a numerical failure
\* (non-convergence, singular fit) or with any other exception.
RefineFailures == {"numeric", "unexpected"}

\* An except clause that handles nothing.
CaughtNothing(kind) == FALSE

\* except Exception: every failure of the try block is caught.
Caught(kind) == kind \in RefineFailures

\* np.hypot(dx, dy), carried as its square.
MagSq(d) == [j \in DOMAIN d.dx |-> d.dx[j] * d.dx[j] + d.dy[j] * d.dy[j]]

Scaled(v, k) == [j \in DOMAIN v |-> v[j] * k]

\* if nm_per_pixel: ... else: dx_nm = dy_nm = mag_nm = None.  mag_nm is
\* carried as <<squared magnitude, scale>>.
DisplacementDict(d, nm) ==
    LET truthy == IF nm = None THEN FALSE ELSE Val(nm) # 0
    IN  [dx |-> d.dx, dy |-> d.dy, mag |-> MagSq(d),
         dx_nm |-> IF truthy THEN Some(Scaled(d.dx, Val(nm))) ELSE None,
         dy_nm |-> IF truthy THEN Some(Scaled(d.dy, Val(nm))) ELSE None,
         mag_nm |-> IF truthy THEN Some([j \in DOMAIN d.dx |-> <<MagSq(d)[j], Val(nm)>>])
                    ELSE None]

\* strain = {}
EmptyStrain == << >>

\* Path(output_dir) if output_dir else Path("outputs") / Path(image_path).stem
OutDir(a) == IF a.output_dir # None THEN Val(a.output_dir) ELSE <<"outputs", Stem(a.image_path)>>

\* The files of the try block, in the order they are written.
SaveList(d) ==
    <<"preprocessed.png", "peaks_a.csv", "peaks_b.csv", "peaks_overlay.png", "displacement.csv",
      "displacement_arrows.png", "displacement_heatmap.png">>
        \o (IF d.dx_nm # None THEN <<"displacement_nm.csv">> ELSE << >>)

Raise(e) ==
    /\ pc' = "raised"
    /\ error' = e

PipeInit ==
    /\ DispIdle
    /\ FftIdle
    /\ MaskIdle
    /\ StrainIdle
    /\ StatsIdle
    /\ RunsIdle
    /\ PreIdle
    /\ BatchIdle
    /\ GuiIdle
    /\ pc = "start"
    /\ args \in PipelineArgs
    /\ img \in PipeShapes
    /\ sep = None
    /\ estimate = None
    /\ refine_log = << >>
    /\ calls = << >>
    /\ zone_axes = << >>
    /\ peaks_a = << >>
    /\ ideal_b = << >>
    /\ peaks_b = << >>
    /\ disp = NoDisp
    /\ strain = << >>
    /\ out_dir = None
    /\ fs = [dirs |-> {}, files |-> {}]
    /\ save_i = 0
    /\ error = None
    /\ result = None

\* raw = load_image(image_path); img = preprocess_image(raw, ...)
run_pipeline_load ==
    /\ pc = "start"
    /\ calls' = calls \o <<"load_image", "preprocess_image">>
    /\ pc' = "separation"
    /\ UNCHANGED <<args, img, sep, estimate, refine_log, zone_axes, peaks_a, ideal_b, peaks_b, disp, strain, out_dir,
                   fs, save_i, error, result>>
    /\ UNCHANGED notPipeVars

\* sep = separation, a separation having been supplied
run_pipeline_separation_given ==
    /\ pc = "separation"
    /\ args.separation # None
    /\ sep' = args.separation
    /\ pc' = "check"
    /\ UNCHANGED <<args, img, estimate, refine_log, calls, zone_axes, peaks_a, ideal_b, peaks_b,
                   disp, strain, out_dir, fs, save_i, error, result>>
    /\ UNCHANGED notPipeVars

\* An estimator call whose failure is swallowed and replaced by a default
\* separation of one pixel.
run_pipeline_estimate_default ==
    /\ pc = "separation"
    /\ args.separation = None
    /\ calls' = Append(calls, "_estimate_separation_from_fft")
    /\ \E r \in EstimatorOutcomes(img) :
        /\ estimate' = Some(r)
        /\ sep' = IF r[1] = "ValueError" THEN Some(1) ELSE r[2]
    /\ pc' = "check"
    /\ UNCHANGED <<args, img, refine_log, zone_axes, peaks_a, ideal_b, peaks_b, disp, strain,
                   out_dir, fs, save_i, error, result>>
    /\ UNCHANGED notPipeVars

\* if sep is None: sep = _estimate_separation_from_fft(img)
run_pipeline_estimate ==
    /\ pc = "separation"
    /\ args.separation = None
    /\ calls' = Append(calls, "_estimate_separation_from_fft")
    /\ \E r \in EstimatorOutcomes(img) :
        /\ estimate' = Some(r)
        /\ IF r[1] = "ValueError"
           THEN Raise(<<"ValueError", "kth out of bounds">>) /\ UNCHANGED sep
           ELSE sep' = r[2] /\ pc' = "check" /\ UNCHANGED error
    /\ UNCHANGED <<args, img, refine_log, zone_axes, peaks_a, ideal_b, peaks_b, disp, strain, out_dir,
                   fs, save_i, result>>
    /\ UNCHANGED notPipeVars

\* if sep is None or sep <= 0: raise ValueError
run_pipeline_separation_unusable ==
    /\ pc = "check"
    /\ SeparationUnusable(sep)
    /\ Raise(<<"ValueError", "Failed to estimate lattice separation">>)
    /\ UNCHANGED <<args, img, sep, estimate, refine_log, calls, zone_axes, peaks_a, ideal_b, peaks_b, disp, strain,
                   out_dir, fs, save_i, result>>
    /\ UNCHANGED notPipeVars

\* build_sublattices: get_atom_positions, Sublattice, construct_zone_axes
build_sublattices_zone_axes ==
    /\ pc = "check"
    /\ ~SeparationUnusable(sep)
    /\ calls' = calls \o <<"build_sublattices", "get_atom_positions", "construct_zone_axes">>
    /\ peaks_a' = AtomPositions(img)
    /\ zone_axes' \in ZoneAxesOptions(AtomPositions(img))
    /\ pc' = "zone_check"
    /\ UNCHANGED <<args, img, sep, estimate, refine_log, ideal_b, peaks_b, disp, strain, out_dir, fs, save_i, error,
                   result>>
    /\ UNCHANGED notPipeVars

\* if len(sub_a.zones_axis_average_distances) < 2: raise ValueError
build_sublattices_too_few_axes ==
    /\ pc = "zone_check"
    /\ InsufficientZoneAxes(zone_axes)
    /\ Raise(<<"ValueError", "Not enough zone axes detected">>)
    /\ UNCHANGED <<args, img, sep, estimate, refine_log, calls, zone_axes, peaks_a, ideal_b, peaks_b, disp, strain,
                   out_dir, fs, save_i, result>>
    /\ UNCHANGED notPipeVars

\* za0, za1; get_middle_position_list; sub_b; find_nearest_neighbors
build_sublattices_ideal ==
    /\ pc = "zone_check"
    /\ ~InsufficientZoneAxes(zone_axes)
    /\ calls' = Append(calls, "get_middle_position_list")
    /\ ideal_b' = MiddlePositionList(peaks_a, ZonePair(zone_axes))
    /\ peaks_b' = ideal_b'
    /\ pc' = "refine_com"
    /\ UNCHANGED <<args, img, sep, estimate, refine_log, zone_axes, peaks_a, disp, strain, out_dir, fs, save_i, error,
                   result>>
    /\ UNCHANGED notPipeVars

\* One refinement call of the try block or of the handler: on success the
\* columns move and control goes to `next`; a failure the except clause
\* catches goes to the handler; any other leaves build_sublattices.
Refine(name, next, handled) ==
    /\ calls' = Append(calls, name)
    /\ \/ /\ peaks_b' \in RefinedOptions(ideal_b)
          /\ refine_log' = Append(refine_log, <<name, "ok">>)
          /\ pc' = next
          /\ UNCHANGED error
       \/ \E kind \in RefineFailures :
            /\ peaks_b' \in RefinedOptions(ideal_b) \cup {peaks_b}
            /\ refine_log' = Append(refine_log, <<name, kind>>)
            /\ IF handled /\ Caught(kind)
               THEN pc' = "fallback" /\ UNCHANGED error
               ELSE Raise(<<"RefinementFailed", kind>>)
    /\ UNCHANGED <<args, img, sep, estimate, zone_axes, peaks_a, ideal_b, disp, strain, out_dir, fs, save_i,
                   result>>
    /\ UNCHANGED notPipeVars

\* try: sub_b.refine_atom_positions_using_center_of_mass(percent_to_nn=0.4)
build_sublattices_center_of_mass ==
    /\ pc = "refine_com"
    /\ Refine("center_of_mass", "refine_gauss", TRUE)

\* sub_b.refine_atom_positions_using_2d_gaussian(percent_to_nn=0.4)
build_sublattices_2d_gaussian ==
    /\ pc = "refine_gauss"
    /\ Refine("2d_gaussian", "displace", TRUE)

\* except Exception: sub_b.refine_atom_positions_using_center_of_mass(...)
build_sublattices_fallback ==
    /\ pc = "fallback"
    /\ Refine("fallback_center_of_mass", "displace", FALSE)

\* dx_px, dy_px = compute_b_displacements(peaks_b, ideal_b); the displacement
\* dict; strain = {}.  build_sublattices returns np.array(ideal_b_positions),
\* of shape (0,) for an empty list, which cKDTree refuses.
run_pipeline_displacement ==
    /\ pc = "displace"
    /\ calls' = Append(calls, "compute_b_displacements")
    /\ IF Len(ideal_b) = 0
       THEN Raise(<<"ValueError", "data must be 2 dimensions">>) /\ UNCHANGED <<disp, strain>>
       ELSE /\ \E idx \in QueryAll(ideal_b, peaks_b) :
                disp' = DisplacementDict(Deltas(peaks_b, ideal_b, idx), args.nm_per_pixel)
            /\ strain' = EmptyStrain
            /\ pc' = "mkdir"
            /\ UNCHANGED error
    /\ UNCHANGED <<args, img, sep, estimate, refine_log, zone_axes, peaks_a, ideal_b, peaks_b, out_dir, fs, save_i,
                   result>>
    /\ UNCHANGED notPipeVars

\* out_dir = ...; out_dir.mkdir(parents=True, exist_ok=True)
run_pipeline_mkdir ==
    /\ pc = "mkdir"
    /\ out_dir' = Some(OutDir(args))
    /\ fs' = [fs EXCEPT !.dirs = @ \cup {OutDir(args)}]
    /\ save_i' = 1
    /\ pc' = "save"
    /\ UNCHANGED <<args, img, sep, estimate, refine_log, calls, zone_axes, peaks_a, ideal_b, peaks_b, disp, strain,
                   error, result>>
    /\ UNCHANGED notPipeVars

\* One statement of the try block: the file is written.
run_pipeline_save ==
    /\ pc = "save"
    /\ save_i <= Len(SaveList(disp))
    /\ fs' = [fs EXCEPT !.files = @ \cup {Append(Val(out_dir), SaveList(disp)[save_i])}]
    /\ save_i' = save_i + 1
    /\ UNCHANGED <<pc, args, img, sep, estimate, refine_log, calls, zone_axes, peaks_a, ideal_b, peaks_b, disp, strain,
                   out_dir, error, result>>
    /\ UNCHANGED notPipeVars

\* One statement of the try block fails: except Exception logs and re-raises.
run_pipeline_save_fails ==
    /\ pc = "save"
    /\ save_i <= Len(SaveList(disp))
    /\ Raise(<<"Failed saving outputs", SaveList(disp)[save_i]>>)
    /\ UNCHANGED <<args, img, sep, estimate, refine_log, calls, zone_axes, peaks_a, ideal_b, peaks_b, disp, strain,
                   out_dir, fs, save_i, result>>
    /\ UNCHANGED notPipeVars

\* return PipelineResult(...)
run_pipeline_return ==
    /\ pc = "save"
    /\ save_i > Len(SaveList(disp))
    /\ result' = Some([image |-> img, peaks_a |-> peaks_a, peaks_b |-> peaks_b, ideal_b |-> ideal_b,
                  separation |-> Val(sep), displacement |-> disp, strain |-> strain,
                  output_dir |-> Val(out_dir)])
    /\ pc' = "returned"
    /\ UNCHANGED <<args, img, sep, estimate, refine_log, calls, zone_axes, peaks_a, ideal_b, peaks_b, disp, strain,
                   out_dir, fs, save_i, error>>
    /\ UNCHANGED notPipeVars

Next ==
    \/ run_pipeline_load
    \/ run_pipeline_separation_given
    \/ run_pipeline_estimate
    \/ run_pipeline_separation_unusable
    \/ build_sublattices_zone_axes
    \/ build_sublattices_too_few_axes
    \/ build_sublattices_ideal
    \/ build_sublattices_center_of_mass
    \/ build_sublattices_2d_gaussian
    \/ build_sublattices_fallback
    \/ run_pipeline_displacement
    \/ run_pipeline_mkdir
    \/ run_pipeline_save
    \/ run_pipeline_save_fails
    \/ run_pipeline_return

Spec == PipeInit /\ [][Next]_vars

Called(name) == \E k \in DOMAIN calls : calls[k] = name

TimesCalled(name) == Cardinality({k \in DOMAIN calls : calls[k] = name})

\* The estimator call ended in failure: it raised, or it returned None.
EstimatorFailed ==
    /\ estimate # None
    /\ \/ Val(estimate)[1] = "ValueError"
       \/ Val(estimate)[2] = None

\* C2: when the estimator fails and no separation was supplied, run_pipeline
\* raises to its caller without calling the estimator again, and before any
\* sublattice construction, displacement computation, output-directory
\* creation or file write.
C2_EstimationFailureAborts ==
    (args.separation = None /\ EstimatorFailed) =>
        /\ pc \in {"check", "raised"}
        /\ pc = "raised" => error # None
        /\ TimesCalled("_estimate_separation_from_fft") = 1
        /\ ~Called("build_sublattices")
        /\ ~Called("compute_b_displacements")
        /\ peaks_a = << >> /\ ideal_b = << >> /\ disp = NoDisp
        /\ fs = [dirs |-> {}, files |-> {}]
        /\ result = None

\* The run has ended with an error after a failed estimator call.
C2_Witness ==
    /\ pc = "raised"
    /\ args.separation = None
    /\ EstimatorFailed
    /\ error[1] = "ValueError"

ZoneAxesChecked == Called("construct_zone_axes") /\ pc # "zone_check"

\* C4: with fewer than 2 zone axes build_sublattices raises before any ideal
\* B position is derived or any refinement is invoked; with 2 or more the
\* ideal positions are the middle positions along the first two axes.
C4_ZoneAxes ==
    /\ (ZoneAxesChecked /\ Len(zone_axes) < 2) =>
        /\ pc = "raised"
        /\ error = <<"ValueError", "Not enough zone axes detected">>
        /\ ~Called("get_middle_position_list")
        /\ ideal_b = << >>
        /\ refine_log = << >>
    /\ (ZoneAxesChecked /\ Len(zone_axes) >= 2) =>
        /\ Called("get_middle_position_list")
        /\ ideal_b = MiddlePositionList(peaks_a, <<zone_axes[1], zone_axes[2]>>)

\* build_sublattices has raised on a single zone axis.
C4_Witness ==
    /\ pc = "raised"
    /\ Len(zone_axes) = 1
    /\ Len(peaks_a) > 1
    /\ error = <<"ValueError", "Not enough zone axes detected">>

\* build_sublattices has returned to run_pipeline.
BuildReturned == Called("compute_b_displacements")

\* The exception that left run_pipeline came out of the refinement.
RefinementRaised == pc = "raised" /\ error[1] = "RefinementFailed"

\* C20: only numerically meaningful failures of the primary refinement
\* trigger the center-of-mass fallback; an unexpected error raised by a call
\* of the primary attempt leaves build_sublattices without the fallback
\* being run.
C20_UnexpectedPropagates ==
    \A k \in DOMAIN refine_log :
        (refine_log[k][1] \in {"center_of_mass", "2d_gaussian"}
            /\ refine_log[k][2] = "unexpected") =>
            /\ Len(refine_log) = k
            /\ pc # "fallback"

\* C5: when the 2D-Gaussian refinement fails, the center-of-mass refinement
\* is run as the fallback and build_sublattices returns normally; an error
\* reaches the caller only if that fallback itself fails.
C5_GaussianFallback ==
    \A k \in DOMAIN refine_log :
        (refine_log[k][1] = "2d_gaussian" /\ refine_log[k][2] # "ok") =>
            \/ pc = "fallback" /\ k = Len(refine_log)
            \/ /\ Len(refine_log) = k + 1
               /\ refine_log[k + 1][1] = "fallback_center_of_mass"
               /\ IF refine_log[k + 1][2] = "ok"
                  THEN ~RefinementRaised /\ (pc = "displace" \/ BuildReturned)
                  ELSE RefinementRaised

\* The Gaussian fit failed, the fallback succeeded and the run returned.
C5_Witness ==
    /\ pc = "returned"
    /\ Len(refine_log) = 3
    /\ refine_log[2][1] = "2d_gaussian"
    /\ refine_log[2][2] = "numeric"
    /\ refine_log[3] = <<"fallback_center_of_mass", "ok">>

\* C6: every successful run, after computing the displacements, computes the
\* gridded strain tensor field and the summary statistics from them, and the
\* returned result carries the strain field.
C6_StrainAndStatistics ==
    pc = "returned" =>
        /\ Called("compute_b_displacements")
        /\ Called("compute_strain_from_displacement")
        /\ Called("compute_statistics")
        /\ {"exx", "eyy", "exy", "rotation"} \subseteq DOMAIN Val(result).strain

\* C26: in the result of run_pipeline, for every index j, ideal_b[j] plus
\* (dx[j], dy[j]) is peaks_b[j]: the displacement at index j is measured from
\* the ideal position at index j, the base of arrow j in the overlay.
C26_DisplacementFromOwnIdeal ==
    pc = "returned" =>
        LET r == Val(result)
        IN  \A j \in DOMAIN r.peaks_b :
                Plus(r.ideal_b[j], <<r.displacement.dx[j], r.displacement.dy[j]>>) = r.peaks_b[j]

\* C12: whenever nm_per_pixel is not None, the returned displacement holds
\* dx_nm = dx * scale, dy_nm = dy * scale and mag_nm = mag * scale for every
\* atom, beside the pixel-unit dx, dy and mag.
C12_ScaleReported ==
    (pc = "returned" /\ args.nm_per_pixel # None) =>
        LET d == Val(result).displacement
            k == Val(args.nm_per_pixel)
        IN  /\ d.dx_nm = Some([j \in DOMAIN d.dx |-> d.dx[j] * k])
            /\ d.dy_nm = Some([j \in DOMAIN d.dy |-> d.dy[j] * k])
            /\ d.mag_nm = Some([j \in DOMAIN d.mag |-> <<d.mag[j], k>>])

(***************************************************************************)
(* create_convex_hull_mask                                                 *)
(*                                                                         *)
(* A coordinate is a pair of integer numerators over a stated positive     *)
(* denominator; the geometric tests compare cross products, whose sign     *)
(* does not depend on a common positive scale.                             *)
(***************************************************************************)

\* Most points drawn as the argument of create_convex_hull_mask.
MaxMaskPoints == 4

\* grid_extent = (x_min, x_max, y_min, y_max); the points lie on the integer
\* lattice inside it.
MaskExtent == <<0, 3, 0, 2>>

MaskLattice == (MaskExtent[1]..MaskExtent[2]) \X (MaskExtent[3]..MaskExtent[4])

\* grid_shape values drawn as inputs.
MaskShapes == {<<3, 4>>}

\* shrink_margin values, each <<numerator, denominator>>.
Margins == {<<0, 1>>, <<1, 10>>, <<1, 2>>, <<1, 1>>}

MarginLeq(m1, m2) == m1[1] * m2[2] <= m2[1] * m1[2]

Cross(a, b, c) == (b[1] - a[1]) * (c[2] - a[2]) - (b[2] - a[2]) * (c[1] - a[1])

Between(x, lo, hi) == (lo <= x /\ x <= hi) \/ (hi <= x /\ x <= lo)

OnSegment(q, a, b) ==
    /\ Cross(a, b, q) = 0
    /\ Between(q[1], a[1], b[1])
    /\ Between(q[2], a[2], b[2])

InTriangle(q, a, b, c) ==
    LET d1 == Cross(a, b, q)
        d2 == Cross(b, c, q)
        d3 == Cross(c, a, q)
    IN  (d1 >= 0 /\ d2 >= 0 /\ d3 >= 0) \/ (d1 <= 0 /\ d2 <= 0 /\ d3 <= 0)

\* q lies in the convex hull of the points Q, boundary included.
InHullOf(q, Q) ==
    \/ \E a, b \in Q : OnSegment(q, a, b)
    \/ \E a, b, c \in Q : Cross(a, b, c) # 0 /\ InTriangle(q, a, b, c)

\* All points on one line (or fewer than three distinct points): Qhull
\* cannot build its initial simplex and raises.
Degenerate(Q) == \A a, b, c \in Q : Cross(a, b, c) = 0

\* points[hull.vertices]: the extreme points of the set.
HullVertices(Q) == {p \in Q : ~InHullOf(p, Q \ {p})}

RECURSIVE SumOf(_, _)
SumOf(Q, i) ==
    IF Q = {} THEN 0
    ELSE LET p == CHOOSE p \in Q : TRUE IN p[i] + SumOf(Q \ {p}, i)

\* centroid + (1 - shrink_margin) * (hull_points - centroid), applied when
\* shrink_margin > 0; numerators over Cardinality(V) * m[2].
Shrunk(V, m) ==
    LET k == Cardinality(V)
        sx == SumOf(V, 1)
        sy == SumOf(V, 2)
    IN  IF m[1] > 0
        THEN {<<m[2] * sx + (m[2] - m[1]) * (k * v[1] - sx),
                m[2] * sy + (m[2] - m[1]) * (k * v[2] - sy)>> : v \in V}
        ELSE {<<k * m[2] * v[1], k * m[2] * v[2]>> : v \in V}

\* np.linspace(lo, hi, n)[i], numerator over LinDen(n).
LinDen(n) == IF n > 1 THEN n - 1 ELSE 1

LinNum(lo, hi, n, i) == IF n > 1 THEN lo * (n - 1) + i * (hi - lo) ELSE lo

\* np.meshgrid(x_coords, y_coords): cell [r][c] holds (x_coords[c], y_coords[r]).
MaskCells(shape) == (0..(shape[1] - 1)) \X (0..(shape[2] - 1))

\* np.ones(grid_shape, dtype=bool)
AllTrue(shape) == [cell \in MaskCells(shape) |-> TRUE]

\* A test that takes the cell's coordinates in the other order.
InShrunkHullTransposed(V, m, xnum, xden, ynum, yden) ==
    LET k == Cardinality(V)
        q == <<ynum * k * m[2], xnum * k * m[2]>>
        W == {<<v[1] * yden, v[2] * xden>> : v \in Shrunk(V, m)}
    IN  InHullOf(q, W)

\* The point (xnum / xden, ynum / yden) lies in the hull V shrunk by m.  The
\* x coordinates are scaled by k * m[2] * xden and the y coordinates by
\* k * m[2] * yden: hull membership is invariant under a positive scaling
\* of each axis.
InShrunkHull(V, m, xnum, xden, ynum, yden) ==
    LET k == Cardinality(V)
        q == <<xnum * k * m[2], ynum * k * m[2]>>
        W == {<<v[1] * xden, v[2] * yden>> : v \in Shrunk(V, m)}
    IN  InHullOf(q, W)

\* A guard that lets three points through to the hull construction.
TooFewPointsBelowThree(points) == Len(points) < 3

\* len(points) < 4
TooFewPoints(points) == Len(points) < 4

\* create_convex_hull_mask(points, grid_shape, grid_extent, shrink_margin):
\* all True for fewer than 4 points, when ConvexHull raises (degenerate
\* points) and when Delaunay raises (degenerate shrunk hull).
CreateConvexHullMask(points, shape, extent, m) ==
    IF TooFewPoints(points) THEN AllTrue(shape)
    ELSE IF Degenerate(Range(points)) THEN AllTrue(shape)
    ELSE LET V == HullVertices(Range(points))
         IN  IF Degenerate(Shrunk(V, m)) THEN AllTrue(shape)
             ELSE [cell \in MaskCells(shape) |->
                    InShrunkHull(V, m,
                        LinNum(extent[1], extent[2], shape[2], cell[2]), LinDen(shape[2]),
                        LinNum(extent[3], extent[4], shape[1], cell[1]), LinDen(shape[1]))]

\* The point arrays drawn as inputs: distinct lattice points, in lattice order.
RECURSIVE SetToSeq(_)
SetToSeq(Q) ==
    IF Q = {} THEN << >>
    ELSE LET p == CHOOSE p \in Q : \A q \in Q : p[2] < q[2] \/ (p[2] = q[2] /\ p[1] <= q[1])
         IN  <<p>> \o SetToSeq(Q \ {p})

PointArrays(lattice, lo, hi) ==
    {SetToSeq(Q) : Q \in {Q \in SUBSET lattice : Cardinality(Q) >= lo /\ Cardinality(Q) <= hi}}

MaskInit ==
    /\ DispIdle
    /\ FftIdle
    /\ PipeIdle
    /\ StrainIdle
    /\ StatsIdle
    /\ RunsIdle
    /\ PreIdle
    /\ BatchIdle
    /\ GuiIdle
    /\ mask_points \in PointArrays(MaskLattice, 2, MaxMaskPoints)
    /\ mask_shape \in MaskShapes
    /\ masks = << >>

\* One call create_convex_hull_mask(points, grid_shape, grid_extent, m).
create_convex_hull_mask ==
    /\ \E m \in Margins \ DOMAIN masks :
        masks' = masks @@ (m :> CreateConvexHullMask(mask_points, mask_shape, MaskExtent, m))
    /\ UNCHANGED <<mask_points, mask_shape>>
    /\ UNCHANGED notMaskVars

MaskNext == create_convex_hull_mask

SpecMask == MaskInit /\ [][MaskNext]_vars

\* C9: on degenerate input (fewer than 4 points, or points for which the hull
\* construction or the triangulation of the shrunk hull fails) the call
\* returns a mask of exactly grid_shape that is True in every cell.
C9_DegenerateAllValid ==
    \A m \in DOMAIN masks :
        /\ DOMAIN masks[m] = (0..(mask_shape[1] - 1)) \X (0..(mask_shape[2] - 1))
        /\ (\/ Len(mask_points) < 4
            \/ \A a, b, c \in Range(mask_points) : Cross(a, b, c) = 0
            \/ m = <<1, 1>>)
                => \A cell \in DOMAIN masks[m] : masks[m][cell]

\* Three points that span a triangle leaving a grid cell outside it, masked
\* with a margin that shrinks.
C9_Witness ==
    /\ Len(mask_points) = 3
    /\ ~Degenerate(Range(mask_points))
    /\ <<1, 10>> \in DOMAIN masks
    /\ \E cell \in MaskCells(mask_shape) :
        ~InHullOf(<<cell[2] * 2, cell[1] * 2>>, {<<2 * p[1], 2 * p[2]>> : p \in Range(mask_points)})

\* C10: for two margins m1 <= m2 in [0, 1] called on the same points and
\* grid, every cell valid under m2 is valid under m1.
C10_MarginMonotone ==
    \A m1, m2 \in DOMAIN masks :
        MarginLeq(m1, m2) =>
            \A cell \in DOMAIN masks[m2] : masks[m2][cell] => masks[m1][cell]

\* C11: with shrink_margin = 0 and at least 4 points not all on one line,
\* mask[r][c] is True exactly when the grid coordinate (x_c, y_r), with
\* x_c = x_min + c * (x_max - x_min) / (cols - 1) and
\* y_r = y_min + r * (y_max - y_min) / (rows - 1), lies inside or on the
\* convex hull of the points.
C11_UnshrunkMaskIsHull ==
    (<<0, 1>> \in DOMAIN masks /\ Len(mask_points) >= 4
        /\ \E a, b, c \in Range(mask_points) : Cross(a, b, c) # 0) =>
        LET rows == mask_shape[1]
            cols == mask_shape[2]
            s == (rows - 1) * (cols - 1)
            P == {<<s * p[1], s * p[2]>> : p \in Range(mask_points)}
            q(r, c) == <<(MaskExtent[1] * (cols - 1) + c * (MaskExtent[2] - MaskExtent[1])) * (rows - 1),
                         (MaskExtent[3] * (rows - 1) + r * (MaskExtent[4] - MaskExtent[3])) * (cols - 1)>>
        IN  \A r \in 0..(rows - 1) : \A c \in 0..(cols - 1) :
                masks[<<0, 1>>][<<r, c>>] <=> InHullOf(q(r, c), P)

\* An unshrunk mask of four points in general position that keeps some cells,
\* one of them on the hull's boundary at a cell off the diagonal, and drops
\* others.
C11_Witness ==
    /\ <<0, 1>> \in DOMAIN masks
    /\ Len(mask_points) = 4
    /\ ~Degenerate(Range(mask_points))
    /\ \E cell \in MaskCells(mask_shape) : ~masks[<<0, 1>>][cell]
    /\ masks[<<0, 1>>][<<0, 2>>]
    /\ ~masks[<<0, 1>>][<<2, 0>>]

(***************************************************************************)
(* compute_strain_from_displacement and save_strain_maps                   *)
(*                                                                         *)
(* Arithmetic is exact.  A grid coordinate and a displacement value are    *)
(* integer numerators over D = CoordDen(grid_size); a derivative along     *)
(* axis 0 is a numerator over E * w and along axis 1 over E * h, with      *)
(* E = 2 * D / (grid_size - 1); exy and rotation are numerators over       *)
(* 2 * E * w * h.                                                          *)
(***************************************************************************)

\* grid_size of the interpolation grid.
GridSize == 4

\* Most source points drawn as the argument points.
MaxStrainPoints == 4

\* image_shape = (h, w) values drawn as inputs.
StrainShapes == {<<4, 5>>}

\* The source points are drawn from a 3 x 3 block of atom columns inside
\* the image.
StrainLattice == (1..3) \X (1..3)

\* The fields sampled by dx and dy: u = ax * x + ay * y + c, and v alike.
\* Rigid shift (zero included), uniaxial stretch, pure shear, rotation.
AffineFields ==
    { <<[ax |-> 0, ay |-> 0, c |-> 0], [ax |-> 0, ay |-> 0, c |-> 0]>>,
      <<[ax |-> 0, ay |-> 0, c |-> 1], [ax |-> 0, ay |-> 0, c |-> 2]>>,
      <<[ax |-> 1, ay |-> 0, c |-> 0], [ax |-> 0, ay |-> 0, c |-> 0]>>,
      <<[ax |-> 0, ay |-> 1, c |-> 0], [ax |-> 0 - 1, ay |-> 0, c |-> 0]>> }

\* The arguments dx, dy: the field sampled at each point.
Samples(f, points) == [k \in DOMAIN points |-> f.ax * points[k][1] + f.ay * points[k][2] + f.c]

RECURSIVE GCD(_, _)
GCD(a, b) == IF b = 0 THEN a ELSE GCD(b, a % b)

\* The sample i of g evenly spaced over [-0.01 * len, 1.01 * len] is
\* len * (102 * i - (g - 1)) / (100 * (g - 1)), kept in lowest common terms.
CoordDen(g) == (100 * (g - 1)) \div GCD(102, g - 1)

\* np.mgrid[-0.01 * len : 1.01 * len : complex(0, g)][i], numerator over CoordDen(g).
GridNum(len, i, g) == (len * (102 * i - (g - 1))) \div GCD(102, g - 1)

\* mgrid puts x on axis 0: cell [i][j] is at (grid_x[i], grid_y[j]).
Cells(g) == (0..(g - 1)) \X (0..(g - 1))

GridX(shape, g) == [cell \in Cells(g) |-> GridNum(shape[2], cell[1], g)]

GridY(shape, g) == [cell \in Cells(g) |-> GridNum(shape[1], cell[2], g)]

ScaledPoints(points, g) == {<<CoordDen(g) * p[1], CoordDen(g) * p[2]>> : p \in Range(points)}

\* griddata(method="linear") is defined inside the hull of the points; for
\* samples of an affine field the interpolant over any triangulation is
\* that field.
LinearDefined(points, q, g) == InHullOf(q, ScaledPoints(points, g))

Linear(f, q, g) == f.ax * q[1] + f.ay * q[2] + f.c * CoordDen(g)

\* A fill that writes zero wherever the linear interpolant is undefined.
NearestZero(points, vals, q, g, tie) == 0

\* griddata(method="nearest"): the sample of a closest point; tie picks which
\* of several equally close points the tree query reports.
Nearest(points, vals, q, g, tie) ==
    LET d(k) == (CoordDen(g) * points[k][1] - q[1]) * (CoordDen(g) * points[k][1] - q[1])
              + (CoordDen(g) * points[k][2] - q[2]) * (CoordDen(g) * points[k][2] - q[2])
        close == {k \in DOMAIN points : \A l \in DOMAIN points : d(k) <= d(l)}
        k == IF tie = "low" THEN CHOOSE a \in close : \A b \in close : a <= b
                            ELSE CHOOSE a \in close : \A b \in close : a >= b
    IN  vals[k] * CoordDen(g)

\* The coordinate (grid_x, grid_y) of a cell, numerators over CoordDen(g).
CellPoint(shape, cell, g) == <<GridNum(shape[2], cell[1], g), GridNum(shape[1], cell[2], g)>>

\* griddata(points, vals, (grid_x, grid_y), method="linear", fill_value=np.nan):
\* None stands for NaN.
LinearGrid(points, f, shape, g) ==
    [cell \in Cells(g) |->
        IF LinearDefined(points, CellPoint(shape, cell, g), g)
        THEN Some(Linear(f, CellPoint(shape, cell, g), g)) ELSE None]

\* griddata(points, vals, (grid_x, grid_y), method="nearest")
NearestGrid(points, f, shape, g, tie) ==
    [cell \in Cells(g) |-> Nearest(points, Samples(f, points), CellPoint(shape, cell, g), g, tie)]

\* A grid filled from the nearest-neighbour interpolant in every cell.
InterpolateNearestOnly(points, f, shape, g, tie) == NearestGrid(points, f, shape, g, tie)

\* u_grid after the NaN fill: if np.any(np.isnan(u_grid)), the NaN cells take
\* the nearest-neighbour value; the other cells keep the linear value.
Interpolate(points, f, shape, g, tie) ==
    LET lin == LinearGrid(points, f, shape, g)
    IN  IF \E cell \in Cells(g) : lin[cell] = None
        THEN [cell \in Cells(g) |->
                IF lin[cell] = None THEN NearestGrid(points, f, shape, g, tie)[cell]
                ELSE Val(lin[cell])]
        ELSE [cell \in Cells(g) |-> Val(lin[cell])]

\* The grids one griddata pipeline (linear, then nearest fill) may return.
Interpolants(points, f, shape, g) ==
    {Interpolate(points, f, shape, g, tie) : tie \in {"low", "high"}}

\* A gradient taken with a forward difference wherever a next sample exists.
GradientOneSided(U, cell, axis, g) ==
    LET i == cell[axis]
        at(n) == IF axis = 1 THEN U[<<n, cell[2]>>] ELSE U[<<cell[1], n>>]
    IN  IF i = g - 1 THEN 2 * (at(g - 1) - at(g - 2))
        ELSE 2 * (at(i + 1) - at(i))

\* dx_spacing = w / (grid_size - 1), dy_spacing = h / (grid_size - 1), as
\* <<numerator, denominator>>.
Spacing(len, g) == <<len, g - 1>>

\* np.gradient(U, w / (g - 1), h / (g - 1))[axis - 1] at a cell: central
\* difference over 2 * spacing inside, one-sided over spacing on the
\* boundary.  Numerator over E * w (axis 1) or E * h (axis 2).
Gradient(U, cell, axis, g) ==
    LET i == cell[axis]
        at(n) == IF axis = 1 THEN U[<<n, cell[2]>>] ELSE U[<<cell[1], n>>]
    IN  IF i = 0 THEN 2 * (at(1) - at(0))
        ELSE IF i = g - 1 THEN 2 * (at(g - 1) - at(g - 2))
        ELSE at(i + 1) - at(i - 1)

\* exx = du_dx, eyy = dv_dy, exy = 0.5 * (du_dy + dv_dx),
\* rotation = 0.5 * (dv_dx - du_dy), rotation_deg = np.degrees(rotation)
\* (numerator over 2 * E * w * h * pi).
StrainTensor(u, v, shape, g) ==
    LET h == shape[1]
        w == shape[2]
        rot == [cell \in Cells(g) |->
                  Gradient(v, cell, 1, g) * h - Gradient(u, cell, 2, g) * w]
    IN  [exx |-> [cell \in Cells(g) |-> Gradient(u, cell, 1, g)],
         eyy |-> [cell \in Cells(g) |-> Gradient(v, cell, 2, g)],
         exy |-> [cell \in Cells(g) |->
                    Gradient(u, cell, 2, g) * w + Gradient(v, cell, 1, g) * h],
         rotation |-> rot,
         rotation_deg |-> [cell \in Cells(g) |-> 180 * rot[cell]]]

\* A dictionary of the tensor components alone.
StrainDictTensorOnly(points, u, v, shape, g) == StrainTensor(u, v, shape, g)

\* The dictionary returned by compute_strain_from_displacement.
StrainDict(points, u, v, shape, g) ==
    StrainTensor(u, v, shape, g) @@
        [grid_x |-> GridX(shape, g),
         grid_y |-> GridY(shape, g),
         u_grid |-> u,
         v_grid |-> v,
         source_points |-> points]

\* components drawn by save_strain_maps
Components == {"exx", "eyy", "exy", "rotation_deg"}

\* data = strain_data[key].copy(); data[~mask] = np.nan, with the mask built
\* on grid_shape = exx.shape over grid_extent = (0, w, 0, h), margin 0.10.
\* A blanked cell is None.
MaskedMaps(data, shape, g) ==
    LET mask == CreateConvexHullMask(data.source_points, <<g, g>>,
                                     <<0, shape[2], 0, shape[1]>>, <<1, 10>>)
    IN  [key \in Components |->
            [cell \in Cells(g) |-> IF mask[cell] THEN Some(data[key][cell]) ELSE None]]

StrainFiles == {<<"strain_" \o key \o ".png">> : key \in Components} \cup {<<"strain_combined.png">>}

StrainInit ==
    /\ DispIdle
    /\ FftIdle
    /\ PipeIdle
    /\ MaskIdle
    /\ StatsIdle
    /\ RunsIdle
    /\ PreIdle
    /\ BatchIdle
    /\ GuiIdle
    /\ strain_pc = "pending"
    /\ strain_image_shape \in StrainShapes
    /\ strain_points \in PointArrays(StrainLattice, 3, MaxStrainPoints)
    /\ strain_field \in AffineFields
    /\ strain_data = None
    /\ strain_maps = None
    /\ strain_files = {}
    /\ strain_spacing = None

\* griddata triangulates the points: Qhull raises on points that span no
\* triangle.
compute_strain_from_displacement_raises ==
    /\ strain_pc = "pending"
    /\ Degenerate(Range(strain_points))
    /\ strain_pc' = "raised"
    /\ UNCHANGED <<strain_points, strain_field, strain_image_shape,
                   strain_data, strain_maps, strain_files, strain_spacing>>
    /\ UNCHANGED notStrainVars

compute_strain_from_displacement ==
    /\ strain_pc = "pending"
    /\ ~Degenerate(Range(strain_points))
    /\ \E u \in Interpolants(strain_points, strain_field[1], strain_image_shape, GridSize) :
       \E v \in Interpolants(strain_points, strain_field[2], strain_image_shape, GridSize) :
        strain_data' = Some(StrainDict(strain_points, u, v, strain_image_shape, GridSize))
    /\ strain_spacing' = Some(<<Spacing(strain_image_shape[2], GridSize),
                                Spacing(strain_image_shape[1], GridSize)>>)
    /\ strain_pc' = "computed"
    /\ UNCHANGED <<strain_points, strain_field, strain_image_shape, strain_maps, strain_files>>
    /\ UNCHANGED notStrainVars

save_strain_maps ==
    /\ strain_pc = "computed"
    /\ strain_maps' = Some(MaskedMaps(Val(strain_data), strain_image_shape, GridSize))
    /\ strain_files' = StrainFiles
    /\ strain_pc' = "saved"
    /\ UNCHANGED <<strain_points, strain_field, strain_image_shape, strain_data, strain_spacing>>
    /\ UNCHANGED notStrainVars

StrainNext ==
    \/ compute_strain_from_displacement_raises
    \/ compute_strain_from_displacement
    \/ save_strain_maps

SpecStrain == StrainInit /\ [][StrainNext]_vars

\* C7: for at least 4 source points in general position, save_strain_maps
\* blanks strain cell [i][j] exactly when the coordinate (grid_x[i][j],
\* grid_y[i][j]) at which that cell was computed lies outside the hull of
\* the source points shrunk by 10%.
C7_BlankedIffOwnCoordinateOutside ==
    (strain_pc = "saved" /\ Len(strain_points) >= 4) =>
        LET data == Val(strain_data)
            V == HullVertices(Range(data.source_points))
        IN  \A key \in Components : \A cell \in Cells(GridSize) :
                (Val(strain_maps)[key][cell] = None) <=>
                    ~InShrunkHull(V, <<1, 10>>,
                                  data.grid_x[cell], CoordDen(GridSize),
                                  data.grid_y[cell], CoordDen(GridSize))

C22_GridsFilled ==
    strain_pc = "computed" =>
        \A n \in {1, 2} :
            LET U == IF n = 1 THEN Val(strain_data).u_grid ELSE Val(strain_data).v_grid
                f == strain_field[n]
                vals == Samples(f, strain_points)
                D == CoordDen(GridSize)
                far(k, q) == (D * strain_points[k][1] - q[1]) * (D * strain_points[k][1] - q[1])
                           + (D * strain_points[k][2] - q[2]) * (D * strain_points[k][2] - q[2])
            IN  \A cell \in Cells(GridSize) :
                    LET q == CellPoint(strain_image_shape, cell, GridSize)
                    IN  /\ U[cell] \in Int
                        /\ IF LinearDefined(strain_points, q, GridSize)
                           THEN U[cell] = Linear(f, q, GridSize)
                           ELSE \E k \in DOMAIN strain_points :
                                    /\ \A l \in DOMAIN strain_points : far(k, q) <= far(l, q)
                                    /\ U[cell] = vals[k] * D

\* A stretch field on points whose hull covers some cells and not others,
\* with a filled cell whose value is not the field's value at that cell.
C22_Witness ==
    /\ strain_pc = "computed"
    /\ strain_field[1].ax = 1
    /\ \E c1, c2 \in Cells(GridSize) :
        /\ LinearDefined(strain_points, CellPoint(strain_image_shape, c1, GridSize), GridSize)
        /\ ~LinearDefined(strain_points, CellPoint(strain_image_shape, c2, GridSize), GridSize)
        /\ Val(strain_data).u_grid[c2]
             # Linear(strain_field[1], CellPoint(strain_image_shape, c2, GridSize), GridSize)

\* C23: at every grid cell exx is the finite difference of u along the grid
\* axis on which grid_x varies and eyy that of v along the axis on which
\* grid_y varies, exy + rotation is dv/dx and exy - rotation is du/dy; a
\* difference is central (over two spacings) in the interior and one-sided
\* (over one spacing) on the boundary.  The spacings are the ones handed to
\* the gradient; values are numerators over the denominators of the model.
C23_TensorFromDifferences ==
    strain_pc = "computed" =>
        LET data == Val(strain_data)
            g == GridSize
            h == strain_image_shape[1]
            w == strain_image_shape[2]
            axisX == IF data.grid_x[<<1, 0>>] # data.grid_x[<<0, 0>>] THEN 1 ELSE 2
            axisY == IF data.grid_y[<<1, 0>>] # data.grid_y[<<0, 0>>] THEN 1 ELSE 2
            step(cell, axis, n) == IF axis = 1 THEN <<cell[1] + n, cell[2]>>
                                               ELSE <<cell[1], cell[2] + n>>
            \* <<difference of the samples, number of spacings it spans>>
            diff(U, cell, axis) ==
                IF cell[axis] = 0 THEN <<U[step(cell, axis, 1)] - U[cell], 1>>
                ELSE IF cell[axis] = g - 1 THEN <<U[cell] - U[step(cell, axis, 0 - 1)], 1>>
                ELSE <<U[step(cell, axis, 1)] - U[step(cell, axis, 0 - 1)], 2>>
        IN  /\ axisX # axisY
            /\ \A cell \in Cells(g) :
                LET du_dx == diff(data.u_grid, cell, axisX)
                    du_dy == diff(data.u_grid, cell, axisY)
                    dv_dx == diff(data.v_grid, cell, axisX)
                    dv_dy == diff(data.v_grid, cell, axisY)
                IN  /\ data.exx[cell] * du_dx[2] = 2 * du_dx[1]
                    /\ data.eyy[cell] * dv_dy[2] = 2 * dv_dy[1]
                    /\ (data.exy[cell] + data.rotation[cell]) * dv_dx[2] = 4 * h * dv_dx[1]
                    /\ (data.exy[cell] - data.rotation[cell]) * du_dy[2] = 4 * w * du_dy[1]

\* A shear-and-rotation field whose grids bend where the nearest-neighbour
\* fill begins: an interior cell whose forward and backward differences of
\* u along x differ, and a cell with rotation and shear both non-zero.
C23_Witness ==
    /\ strain_pc = "computed"
    /\ strain_field[1].ay = 1
    /\ \E cell \in (1..(GridSize - 2)) \X (1..(GridSize - 2)) :
        LET U == Val(strain_data).u_grid
        IN  U[<<cell[1] + 1, cell[2]>>] - U[cell] # U[cell] - U[<<cell[1] - 1, cell[2]>>]
    /\ \E cell \in Cells(GridSize) :
        /\ Val(strain_data).rotation[cell] # 0
        /\ Val(strain_data).exy[cell] # 0

\* C21: the spacing passed to the gradient along each axis equals the
\* coordinate distance between adjacent samples of the interpolation grid
\* along that axis.
C21_SpacingIsGridStep ==
    strain_pc = "computed" =>
        LET data == Val(strain_data)
            dx_spacing == Val(strain_spacing)[1]
            dy_spacing == Val(strain_spacing)[2]
        IN  \A cell \in Cells(GridSize) :
                /\ cell[1] > 0 =>
                      (data.grid_x[cell] - data.grid_x[<<cell[1] - 1, cell[2]>>]) * dx_spacing[2]
                          = dx_spacing[1] * CoordDen(GridSize)
                /\ cell[2] > 0 =>
                      (data.grid_y[cell] - data.grid_y[<<cell[1], cell[2] - 1>>]) * dy_spacing[2]
                          = dy_spacing[1] * CoordDen(GridSize)

\* C15: when the strain computation returns and dx is the same at every
\* point and dy is the same at every point, exx, eyy, exy and rotation are 0
\* at every grid cell.
C15_UniformDisplacementNoStrain ==
    (/\ strain_pc \in {"computed", "saved"}
     /\ \A k, l \in DOMAIN strain_points :
            /\ Samples(strain_field[1], strain_points)[k] = Samples(strain_field[1], strain_points)[l]
            /\ Samples(strain_field[2], strain_points)[k] = Samples(strain_field[2], strain_points)[l])
        => \A key \in {"exx", "eyy", "exy", "rotation"} :
             \A i, j \in 0..(GridSize - 1) : Val(strain_data)[key][<<i, j>>] = 0

\* A rigid shift of three points: the grid holds the shift inside the
\* triangle and outside it, where the nearest sample fills in.
C15_Witness ==
    /\ strain_pc = "computed"
    /\ Len(strain_points) = 3
    /\ Samples(strain_field[1], strain_points) = <<1, 1, 1>>
    /\ Samples(strain_field[2], strain_points) = <<2, 2, 2>>
    /\ \E cell \in Cells(GridSize) :
          ~LinearDefined(strain_points, <<Val(strain_data).grid_x[cell], Val(strain_data).grid_y[cell]>>, GridSize)
    /\ \E cell \in Cells(GridSize) :
          LinearDefined(strain_points, <<Val(strain_data).grid_x[cell], Val(strain_data).grid_y[cell]>>, GridSize)
    /\ \A cell \in Cells(GridSize) : Val(strain_data).u_grid[cell] = CoordDen(GridSize)

(***************************************************************************)
(* compute_statistics                                                      *)
(*                                                                         *)
(* The displacements are drawn so that every magnitude is an integer.  A   *)
(* mean or a median is a pair <<numerator, denominator>>; the standard     *)
(* deviation is carried as its square, a pair likewise.                    *)
(***************************************************************************)

\* Most atoms in the arguments dx, dy.
MaxStatsLen == 3

\* The displacement vectors drawn as inputs: zero, and four of length 5.
StatsVectors == {<<0, 0>>, <<3, 4>>, <<0 - 4, 3>>, <<0, 0 - 5>>, <<5, 0>>}

\* np.hypot(dx, dy) of a drawn vector.
Hypot(v) == CHOOSE r \in 0..5 : r * r = v[1] * v[1] + v[2] * v[2]

RECURSIVE SeqSum(_)
SeqSum(q) == IF q = << >> THEN 0 ELSE Head(q) + SeqSum(Tail(q))

\* np.median: the middle of the sorted values, or the mean of the two middle ones.
Median(m) ==
    LET n == Len(m)
        rank(k) == Cardinality({j \in 1..n : m[j] < m[k] \/ (m[j] = m[k] /\ j <= k)})
        nth(r) == m[CHOOSE k \in 1..n : rank(k) = r]
    IN  IF n % 2 = 1 THEN <<2 * nth((n + 1) \div 2), 2>>
        ELSE <<nth(n \div 2) + nth(n \div 2 + 1), 2>>

\* The entries computed whatever the scale.  angle_mean_deg is carried as the
\* arguments <<sum dy, sum dx>> of arctan2, angle_circular_std_deg as the
\* squared resultant of the unit vectors over its denominator.
PixelStatistics(d) ==
    LET n == Len(d)
        m == [j \in 1..n |-> Hypot(d[j])]
        unit(j) == IF m[j] = 0 THEN <<5, 0>> ELSE d[j]
        ux == SeqSum([j \in 1..n |-> unit(j)[1]])
        uy == SeqSum([j \in 1..n |-> unit(j)[2]])
    IN  [count |-> n,
         magnitude_mean |-> <<SeqSum(m), n>>,
         magnitude_std |-> <<n * SeqSum([j \in 1..n |-> m[j] * m[j]]) - SeqSum(m) * SeqSum(m), n * n>>,
         magnitude_min |-> CHOOSE x \in Range(m) : \A y \in Range(m) : x <= y,
         magnitude_max |-> CHOOSE x \in Range(m) : \A y \in Range(m) : x >= y,
         magnitude_median |-> Median(m),
         angle_mean_deg |-> <<SeqSum([j \in 1..n |-> d[j][2]]), SeqSum([j \in 1..n |-> d[j][1]])>>,
         angle_circular_std_deg |-> <<ux * ux + uy * uy, 25 * n * n>>]

\* value * nm_per_pixel for a mean or a median
TimesRatio(q, k) == <<q[1] * k, q[2]>>

\* value * nm_per_pixel for a standard deviation carried as its square
TimesRoot(q, k) == <<q[1] * k * k, q[2]>>

\* The entries added if nm_per_pixel is not None.
PhysicalStatistics(r, k) ==
    [magnitude_mean_nm |-> TimesRatio(r.magnitude_mean, k),
     magnitude_std_nm |-> TimesRoot(r.magnitude_std, k),
     magnitude_min_nm |-> r.magnitude_min * k,
     magnitude_max_nm |-> r.magnitude_max * k]

StatsInit ==
    /\ DispIdle
    /\ FftIdle
    /\ PipeIdle
    /\ MaskIdle
    /\ StrainIdle
    /\ RunsIdle
    /\ PreIdle
    /\ BatchIdle
    /\ GuiIdle
    /\ stats_pc = "pending"
    /\ stats_d \in SeqsUpTo(StatsVectors, MaxStatsLen)
    /\ stats_nm \in ScaleArgs
    /\ stats_result = None

\* np.min of an empty array raises ValueError.
compute_statistics_empty ==
    /\ stats_pc = "pending"
    /\ Len(stats_d) = 0
    /\ stats_pc' = "raised"
    /\ UNCHANGED <<stats_d, stats_nm, stats_result>>
    /\ UNCHANGED notStatsVars

compute_statistics ==
    /\ stats_pc = "pending"
    /\ Len(stats_d) > 0
    /\ stats_result' =
          Some(IF stats_nm # None
               THEN PixelStatistics(stats_d) @@ PhysicalStatistics(PixelStatistics(stats_d), Val(stats_nm))
               ELSE PixelStatistics(stats_d))
    /\ stats_pc' = "returned"
    /\ UNCHANGED <<stats_d, stats_nm>>
    /\ UNCHANGED notStatsVars

StatsNext ==
    \/ compute_statistics_empty
    \/ compute_statistics

SpecStats == StatsInit /\ [][StatsNext]_vars

\* C13: when nm_per_pixel is supplied the returned dictionary holds, for each
\* of magnitude_mean, magnitude_std, magnitude_min, magnitude_max and
\* magnitude_median, an entry of the same name with _nm appended whose value
\* is the pixel value times the scale.
C13_PhysicalCounterparts ==
    (stats_pc = "returned" /\ stats_nm # None) =>
        LET r == Val(stats_result)
            k == Val(stats_nm)
        IN  /\ {"magnitude_mean_nm", "magnitude_std_nm", "magnitude_min_nm",
                "magnitude_max_nm", "magnitude_median_nm"} \subseteq DOMAIN r
            /\ r["magnitude_mean_nm"] = <<r["magnitude_mean"][1] * k, r["magnitude_mean"][2]>>
            /\ r["magnitude_std_nm"] = <<r["magnitude_std"][1] * k * k, r["magnitude_std"][2]>>
            /\ r["magnitude_min_nm"] = r["magnitude_min"] * k
            /\ r["magnitude_max_nm"] = r["magnitude_max"] * k
            /\ r["magnitude_median_nm"] = <<r["magnitude_median"][1] * k, r["magnitude_median"][2]>>

(***************************************************************************)
(* Two run_pipeline invocations interleaved in one process                 *)
(*                                                                         *)
(* Everything up to the displacement dictionary works on the invocation's  *)
(* own arrays; the save stage writes through PIL and np.savetxt, and, in   *)
(* save_displacement_arrows and save_displacement_heatmap, through         *)
(* matplotlib.pyplot, whose current figure belongs to the process.         *)
(***************************************************************************)

\* The two invocations; invocation r reads image r and writes directory r.
Runs == {1, 2}

OutputDirOf(r) == <<"out", r>>

\* The statements of one invocation, in order.
Program ==
    << <<"compute">>,
       <<"mkdir">>,
       <<"write", "preprocessed.png">>,
       <<"write", "peaks_a.csv">>,
       <<"write", "peaks_b.csv">>,
       <<"write", "peaks_overlay.png">>,
       <<"write", "displacement.csv">>,
       <<"figure">>,
       <<"draw", "imshow image">>,
       <<"draw", "quiver">>,
       <<"draw", "title arrows">>,
       <<"savefig", "displacement_arrows.png">>,
       <<"close">>,
       <<"figure">>,
       <<"draw", "imshow heatmap">>,
       <<"draw", "colorbar">>,
       <<"draw", "title heatmap">>,
       <<"savefig", "displacement_heatmap.png">>,
       <<"close">>,
       <<"return">> >>

AtOp(r, op) == run_pc[r] <= Len(Program) /\ Program[run_pc[r]][1] = op

Step(r) == run_pc' = [run_pc EXCEPT ![r] = @ + 1]

\* plt.gcf(): the current figure, a new empty one if none is open.
Gcf(figs) == IF figs = << >> THEN << {} >> ELSE figs

RunsInit ==
    /\ DispIdle
    /\ FftIdle
    /\ PipeIdle
    /\ MaskIdle
    /\ StrainIdle
    /\ StatsIdle
    /\ PreIdle
    /\ BatchIdle
    /\ GuiIdle
    /\ run_pc = [r \in Runs |-> 1]
    /\ gcf = << >>
    /\ run_files = << >>
    /\ run_results = [r \in Runs |-> None]

\* load, preprocess, build_sublattices, compute_b_displacements: local arrays.
runs_compute ==
    \E r \in Runs :
        /\ AtOp(r, "compute")
        /\ Step(r)
        /\ UNCHANGED <<gcf, run_files, run_results>>
        /\ UNCHANGED notRunsVars

\* out_dir.mkdir(parents=True, exist_ok=True)
runs_mkdir ==
    \E r \in Runs :
        /\ AtOp(r, "mkdir")
        /\ Step(r)
        /\ UNCHANGED <<gcf, run_files, run_results>>
        /\ UNCHANGED notRunsVars

\* save_png, save_csv, save_peaks_overlay: the invocation's data to its own file.
runs_write ==
    \E r \in Runs :
        /\ AtOp(r, "write")
        /\ run_files' = (<<OutputDirOf(r), Program[run_pc[r]][2]>> :> {<<r, Program[run_pc[r]][2]>>}) @@ run_files
        /\ Step(r)
        /\ UNCHANGED <<gcf, run_results>>
        /\ UNCHANGED notRunsVars

\* plt.figure(): a new figure becomes the current one.
plt_figure ==
    \E r \in Runs :
        /\ AtOp(r, "figure")
        /\ gcf' = Append(gcf, {})
        /\ Step(r)
        /\ UNCHANGED <<run_files, run_results>>
        /\ UNCHANGED notRunsVars

\* plt.imshow, plt.quiver, plt.colorbar, plt.title: drawn on the current figure.
plt_draw ==
    \E r \in Runs :
        /\ AtOp(r, "draw")
        /\ LET figs == Gcf(gcf)
           IN  gcf' = [figs EXCEPT ![Len(figs)] = @ \cup {<<r, Program[run_pc[r]][2]>>}]
        /\ Step(r)
        /\ UNCHANGED <<run_files, run_results>>
        /\ UNCHANGED notRunsVars

\* plt.savefig(path): the current figure is written to the invocation's path.
plt_savefig ==
    \E r \in Runs :
        /\ AtOp(r, "savefig")
        /\ LET figs == Gcf(gcf)
           IN  /\ gcf' = figs
               /\ run_files' = (<<OutputDirOf(r), Program[run_pc[r]][2]>> :> figs[Len(figs)]) @@ run_files
        /\ Step(r)
        /\ UNCHANGED run_results
        /\ UNCHANGED notRunsVars

\* plt.close(): the current figure, if any, is destroyed and the one opened
\* before it becomes current.
plt_close ==
    \E r \in Runs :
        /\ AtOp(r, "close")
        /\ gcf' = IF gcf = << >> THEN << >> ELSE SubSeq(gcf, 1, Len(gcf) - 1)
        /\ Step(r)
        /\ UNCHANGED <<run_files, run_results>>
        /\ UNCHANGED notRunsVars

\* return PipelineResult(...): the invocation's own arrays and directory.
runs_return ==
    \E r \in Runs :
        /\ AtOp(r, "return")
        /\ run_results' = [run_results EXCEPT ![r] = Some([image |-> r, output_dir |-> OutputDirOf(r)])]
        /\ Step(r)
        /\ UNCHANGED <<gcf, run_files>>
        /\ UNCHANGED notRunsVars

RunsNext ==
    \/ runs_compute
    \/ runs_mkdir
    \/ runs_write
    \/ plt_figure
    \/ plt_draw
    \/ plt_savefig
    \/ plt_close
    \/ runs_return

SpecRuns == RunsInit /\ [][RunsNext]_vars

\* C16: whatever the interleaving, once an invocation has returned, its result
\* and every file of its output directory are those it produces when it runs
\* alone: each file holds that invocation's data and, for a figure, exactly
\* the drawings that invocation made for that figure.
C16_RunsIndependent ==
    \A r \in Runs :
        run_results[r] # None =>
            /\ run_results[r] = Some([image |-> r, output_dir |-> <<"out", r>>])
            /\ \A name \in {"preprocessed.png", "peaks_a.csv", "peaks_b.csv",
                            "peaks_overlay.png", "displacement.csv"} :
                  run_files[<<<<"out", r>>, name>>] = {<<r, name>>}
            /\ run_files[<<<<"out", r>>, "displacement_arrows.png">>]
                  = {<<r, "imshow image">>, <<r, "quiver">>, <<r, "title arrows">>}
            /\ run_files[<<<<"out", r>>, "displacement_heatmap.png">>]
                  = {<<r, "imshow heatmap">>, <<r, "colorbar">>, <<r, "title heatmap">>}

(***************************************************************************)
(* preprocess_image                                                        *)
(*                                                                         *)
(* An array is a window onto a buffer of the heap; a slice is a window     *)
(* onto the same buffer, a filter or an arithmetic expression allocates a  *)
(* buffer, an augmented assignment writes through the window.  A pixel is  *)
(* <<numerator, denominator>>.                                             *)
(***************************************************************************)

\* Largest pixel value of the argument image.
MaxPixel == 2

\* image.shape = (rows, cols) of the argument image.
PreShape == <<1, 2>>

PrePositions == (0..(PreShape[1] - 1)) \X (0..(PreShape[2] - 1))

\* roi = (x1, y1, x2, y2): none, the left pixel, the whole image, an empty crop.
RoiArgs == {None, Some(<<0, 0, 1, 1>>), Some(<<0, 0, 2, 1>>), Some(<<1, 0, 1, 1>>)}

\* background_sigma and gaussian_sigma: None, zero, one.
SigmaArgs == {None, Some(0), Some(1)}

Truthy(x) == x # None /\ Val(x) # 0

\* img[a.win]: the values seen through the window.
ViewData(heap, a) == [q \in a.win |-> heap[a.buf][q]]

\* A fresh buffer holding data, and the array that owns it.
Allocate(heap, data) == [heap |-> Append(heap, data), arr |-> [buf |-> Len(heap) + 1, win |-> DOMAIN data]]

\* img[y1:y2, x1:x2]: a view of the same buffer.
Crop(st, roi) ==
    [heap |-> st.heap,
     arr |-> [buf |-> st.arr.buf,
              win |-> {q \in st.arr.win : /\ roi[2] <= q[1] /\ q[1] < roi[4]
                                          /\ roi[1] <= q[2] /\ q[2] < roi[3]}]]

Numerators(data) == {data[q][1] : q \in DOMAIN data}

MinOf(S) == CHOOSE x \in S : \A y \in S : x <= y

MaxOf(S) == CHOOSE x \in S : \A y \in S : x >= y

\* gaussian_filter(img, sigma): a new array of the same shape; every output
\* pixel is a weighted mean of input pixels, hence between their extremes.
Blurs(data) == [DOMAIN data -> {<<v, 1>> : v \in MinOf(Numerators(data))..MaxOf(Numerators(data))}]

\* arr -= m: written through the window into the array's buffer.
InPlaceMinus(st, m) ==
    [heap |-> [st.heap EXCEPT ![st.arr.buf] =
                 [q \in DOMAIN @ |-> IF q \in st.arr.win THEN <<@[q][1] - m, @[q][2]>> ELSE @[q]]],
     arr |-> st.arr]

\* arr /= m
InPlaceDivide(st, m) ==
    [heap |-> [st.heap EXCEPT ![st.arr.buf] =
                 [q \in DOMAIN @ |-> IF q \in st.arr.win THEN <<@[q][1], @[q][2] * m>> ELSE @[q]]],
     arr |-> st.arr]

\* remove_background: blurred = gaussian_filter(image); corrected = image - blurred;
\* corrected -= corrected.min()
RemoveBackground(st, blurred) ==
    LET data == ViewData(st.heap, st.arr)
        b == Allocate(st.heap, blurred)
        c == Allocate(b.heap, [q \in DOMAIN data |-> <<data[q][1] - blurred[q][1], 1>>])
    IN  InPlaceMinus(c, MinOf(Numerators(ViewData(c.heap, c.arr))))

\* A conversion that hands back the array itself when the type already matches.
AsTypeNoCopy(st) == st

\* image.astype(np.float64): always a copy.
AsType(st) == Allocate(st.heap, ViewData(st.heap, st.arr))

\* normalize: img = image.astype(np.float64); img -= img.min();
\* if img.max() > 0: img /= img.max()
Normalize(st) ==
    LET a == AsType(st)
        m == InPlaceMinus(a, MinOf(Numerators(ViewData(a.heap, a.arr))))
        top == MaxOf(Numerators(ViewData(m.heap, m.arr)))
    IN  IF top > 0 THEN InPlaceDivide(m, top) ELSE m

PreInit ==
    /\ DispIdle
    /\ FftIdle
    /\ PipeIdle
    /\ MaskIdle
    /\ StrainIdle
    /\ StatsIdle
    /\ RunsIdle
    /\ BatchIdle
    /\ GuiIdle
    /\ pre_pc = "pending"
    /\ pre_args \in [roi : RoiArgs, background_sigma : SigmaArgs, gaussian_sigma : SigmaArgs]
    /\ pre_image \in [PrePositions -> {<<v, 1>> : v \in 0..MaxPixel}]
    /\ pre_heap = <<pre_image>>
    /\ pre_result = None

\* The array after the optional crop.
Cropped ==
    LET st == [heap |-> pre_heap, arr |-> [buf |-> 1, win |-> PrePositions]]
    IN  IF pre_args.roi # None THEN Crop(st, Val(pre_args.roi)) ELSE st

\* An empty crop: min() of an empty array raises ValueError.
preprocess_image_empty ==
    /\ pre_pc = "pending"
    /\ Cropped.arr.win = {}
    /\ pre_pc' = "raised"
    /\ UNCHANGED <<pre_args, pre_image, pre_heap, pre_result>>
    /\ UNCHANGED notPreVars

preprocess_image ==
    /\ pre_pc = "pending"
    /\ Cropped.arr.win # {}
    /\ \E b1 \in Blurs(ViewData(Cropped.heap, Cropped.arr)) :
        LET s2 == IF Truthy(pre_args.background_sigma) THEN RemoveBackground(Cropped, b1) ELSE Cropped
        IN  \E b2 \in Blurs(ViewData(s2.heap, s2.arr)) :
                LET s3 == IF Truthy(pre_args.gaussian_sigma) THEN Allocate(s2.heap, b2) ELSE s2
                    s4 == Normalize(s3)
                IN  /\ pre_heap' = s4.heap
                    /\ pre_result' = Some(s4.arr)
    /\ pre_pc' = "returned"
    /\ UNCHANGED <<pre_args, pre_image>>
    /\ UNCHANGED notPreVars

PreNext ==
    \/ preprocess_image_empty
    \/ preprocess_image

SpecPre == PreInit /\ [][PreNext]_vars

\* C17: for every combination of roi, background_sigma and gaussian_sigma,
\* when preprocess_image returns, the argument's buffer holds the values it
\* held at the call and the returned array lives in another buffer.
C17_InputUntouched ==
    pre_pc = "returned" =>
        /\ pre_heap[1] = pre_image
        /\ Val(pre_result).buf # 1

\* All three stages disabled on an image whose normalisation changes every
\* pixel: the result is a new buffer holding the normalised values.
C17_Witness ==
    /\ pre_pc = "returned"
    /\ pre_args = [roi |-> None, background_sigma |-> None, gaussian_sigma |-> None]
    /\ pre_image = (<<0, 0>> :> <<1, 1>>) @@ (<<0, 1>> :> <<2, 1>>)
    /\ pre_heap[Val(pre_result).buf] = (<<0, 0>> :> <<0, 1>>) @@ (<<0, 1>> :> <<1, 1>>)

(***************************************************************************)
(* The batch runner: main of tests/test_pipeline.py                        *)
(***************************************************************************)

\* Most input files drawn for one batch.
MaxFiles == 2

\* What the stages of one input file would do: creating its output
\* directory, writing the raw preview, and the pipeline with the saves that
\* follow it ("pipeline": run_pipeline raises; "save": a later save raises).
FileKinds == [mkdir : {"ok", "raises"}, preview : {"ok", "raises"}, stages : {"ok", "pipeline", "save"}]

\* The parameters of run_pipeline.
RunPipelineParameters ==
    {"image_path", "gaussian_sigma", "background_sigma", "roi", "separation", "threshold",
     "refine_sigma", "reference", "nm_per_pixel", "output_dir"}

\* The keyword arguments of the call in main.
BatchKeywords ==
    {"image_path", "gaussian_sigma", "background_sigma", "roi", "separation", "threshold",
     "refine_sigma", "nm_per_pixel", "invert", "output_dir"}

\* pipeline.run_pipeline(**keywords) on a file: Python binds the keywords
\* before the body runs and raises TypeError on one that is no parameter.
CallRunPipeline(keywords, file) ==
    IF ~(keywords \subseteq RunPipelineParameters) THEN "TypeError"
    ELSE IF file.stages = "pipeline" THEN "PipelineError"
    ELSE "ok"

\* The body of the second try block: the call, then the saves.
TryRun(file) ==
    LET outcome == CallRunPipeline(BatchKeywords, file)
    IN  IF outcome # "ok" THEN outcome
        ELSE IF file.stages = "save" THEN "SaveError"
        ELSE "ok"

BatchInit ==
    /\ DispIdle
    /\ FftIdle
    /\ PipeIdle
    /\ MaskIdle
    /\ StrainIdle
    /\ StatsIdle
    /\ RunsIdle
    /\ PreIdle
    /\ GuiIdle
    /\ batch_pc = "mkdir"
    /\ files \in UNION {[1..n -> FileKinds] : n \in 1..MaxFiles}
    /\ batch_i = 1
    /\ previews = {}
    /\ succeeded = << >>
    /\ failed = << >>

\* out_dir.mkdir(parents=True, exist_ok=True), outside any try block: an
\* OSError leaves the loop and main.
batch_mkdir ==
    /\ batch_pc = "mkdir"
    /\ batch_pc' = IF files[batch_i].mkdir = "raises" THEN "aborted" ELSE "preview"
    /\ UNCHANGED <<files, batch_i, previews, succeeded, failed>>
    /\ UNCHANGED notBatchVars

\* get_metadata_hints and the first try block: whatever the preview raises
\* is passed over.
batch_preview ==
    /\ batch_pc = "preview"
    /\ previews' = IF files[batch_i].preview = "ok" THEN previews \cup {batch_i} ELSE previews
    /\ batch_pc' = "run"
    /\ UNCHANGED <<files, batch_i, succeeded, failed>>
    /\ UNCHANGED notBatchVars

\* The second try block and the step of the for loop.
batch_run ==
    /\ batch_pc = "run"
    /\ LET outcome == TryRun(files[batch_i])
       IN  IF outcome = "ok"
           THEN succeeded' = Append(succeeded, batch_i) /\ UNCHANGED failed
           ELSE failed' = Append(failed, <<batch_i, outcome>>) /\ UNCHANGED succeeded
    /\ IF batch_i < Len(files)
       THEN batch_i' = batch_i + 1 /\ batch_pc' = "mkdir"
       ELSE batch_pc' = "summary" /\ UNCHANGED batch_i
    /\ UNCHANGED <<files, previews>>
    /\ UNCHANGED notBatchVars

\* The summary printed after the loop.
batch_summary ==
    /\ batch_pc = "summary"
    /\ batch_pc' = "finished"
    /\ UNCHANGED <<files, batch_i, previews, succeeded, failed>>
    /\ UNCHANGED notBatchVars

BatchNext == batch_mkdir \/ batch_preview \/ batch_run \/ batch_summary

SpecBatch == BatchInit /\ [][BatchNext]_vars

\* The indices of the files recorded in each list.
InSucceeded(k) == \E n \in DOMAIN succeeded : succeeded[n] = k

InFailed(k) == \E n \in DOMAIN failed : failed[n][1] = k

\* C24: when the batch runner has stopped, every input file is in exactly one
\* of the lists succeeded and failed, whatever failed for the files before
\* it, and len(succeeded) + len(failed) is the number of input files.
C24_EveryFileRecorded ==
    batch_pc \in {"finished", "aborted"} =>
        /\ \A k \in DOMAIN files : InSucceeded(k) # InFailed(k)
        /\ Len(succeeded) + Len(failed) = Len(files)

\* C25: every keyword the batch runner passes is a parameter of run_pipeline,
\* and a file whose stages would all succeed is recorded in succeeded and not
\* in failed.
C25_GoodFileSucceeds ==
    batch_pc = "finished" =>
        /\ BatchKeywords \subseteq RunPipelineParameters
        /\ \A k \in DOMAIN files :
              files[k].stages = "ok" => (InSucceeded(k) /\ ~InFailed(k))

(***************************************************************************)
(* The Qt window: MainWindow and its Worker                                *)
(***************************************************************************)

\* Most runs started in one session of the window.
MaxRuns == 2

\* The files the open dialog can return.
GuiImages == {<<"data", "a">>, <<"data", "b">>}

\* How pipeline.run_pipeline ends in the worker: it returns, it raises
\* before it writes, or it raises while saving.
PipelineOutcomes == {"ok", "raises", "raises_while_saving"}

\* A handler that lets every exception leave Worker.run.
WorkerCaughtNothing(outcome) == FALSE

\* except Exception in Worker.run
WorkerCaught(outcome) == outcome \in PipelineOutcomes \ {"ok"}

\* A Run button left enabled while the worker runs.
ButtonLeftEnabled == TRUE

\* self.btn_run.setEnabled(False)
ButtonWhileRunning == FALSE

GuiInit ==
    /\ DispIdle
    /\ FftIdle
    /\ PipeIdle
    /\ MaskIdle
    /\ StrainIdle
    /\ StatsIdle
    /\ RunsIdle
    /\ PreIdle
    /\ BatchIdle
    /\ gui_image_path = None
    /\ gui_result = None
    /\ gui_output_dir = None
    /\ btn_run_enabled = TRUE
    /\ gui_message = "ready"
    /\ gui_runs = << >>
    /\ gui_signals = << >>
    /\ gui_fs = {}

\* choose_image with a file picked; a cancelled dialog returns "" and
\* changes nothing.  The open button is never disabled.
choose_image ==
    /\ \E path \in GuiImages : gui_image_path' = Some(path)
    /\ gui_message' = "selected"
    /\ UNCHANGED <<gui_result, gui_output_dir, btn_run_enabled, gui_runs, gui_signals, gui_fs>>
    /\ UNCHANGED notGuiVars

\* run_pipeline, reached by a click on the enabled Run button, with no image
\* selected: a warning, and return.
run_pipeline_no_image ==
    /\ btn_run_enabled
    /\ gui_image_path = None
    /\ gui_message' = "no_image"
    /\ UNCHANGED <<gui_image_path, gui_result, gui_output_dir, btn_run_enabled, gui_runs, gui_signals,
                   gui_fs>>
    /\ UNCHANGED notGuiVars

\* run_pipeline with text float() rejects: a warning, and return.
run_pipeline_bad_parameters ==
    /\ btn_run_enabled
    /\ gui_image_path # None
    /\ gui_message' = "bad_parameters"
    /\ UNCHANGED <<gui_image_path, gui_result, gui_output_dir, btn_run_enabled, gui_runs, gui_signals,
                   gui_fs>>
    /\ UNCHANGED notGuiVars

\* run_pipeline with an image and parsable text: the button is disabled and
\* a Worker is built from self.image_path and self.output_dir and started.
run_pipeline_start ==
    /\ btn_run_enabled
    /\ gui_image_path # None
    /\ Len(gui_runs) < MaxRuns
    /\ gui_message' = "running"
    /\ btn_run_enabled' = ButtonWhileRunning
    /\ gui_runs' = Append(gui_runs, [image_path |-> Val(gui_image_path),
                                     output_dir |-> gui_output_dir,
                                     state |-> "started", emitted |-> 0])
    /\ UNCHANGED <<gui_image_path, gui_result, gui_output_dir, gui_signals, gui_fs>>
    /\ UNCHANGED notGuiVars

\* Worker.run in its thread: run_pipeline writes into the directory it
\* derives from its arguments, then finished is emitted with the result, or
\* with the exception the handler caught.
worker_run(id) ==
    /\ gui_runs[id].state = "started"
    /\ \E outcome \in PipelineOutcomes :
        LET w == gui_runs[id]
            dir == OutDir([image_path |-> w.image_path, output_dir |-> w.output_dir])
            emits == outcome = "ok" \/ WorkerCaught(outcome)
            signal == IF outcome = "ok"
                      THEN <<id, Some([output_dir |-> dir, image_path |-> w.image_path]), None>>
                      ELSE <<id, None, Some(outcome)>>
        IN  /\ gui_fs' = IF outcome = "raises" THEN gui_fs ELSE gui_fs \cup {<<dir, w.image_path>>}
            /\ gui_signals' = IF emits THEN Append(gui_signals, signal) ELSE gui_signals
            /\ gui_runs' = [gui_runs EXCEPT ![id].state = IF emits THEN "emitted" ELSE "died",
                                            ![id].emitted = IF emits THEN @ + 1 ELSE @]
    /\ UNCHANGED <<gui_image_path, gui_result, gui_output_dir, btn_run_enabled, gui_message>>
    /\ UNCHANGED notGuiVars

\* _on_finished, run by the main thread for the oldest queued signal.
on_finished ==
    /\ Len(gui_signals) > 0
    /\ LET signal == Head(gui_signals)
       IN  /\ btn_run_enabled' = TRUE
           /\ IF signal[3] # None
              THEN /\ gui_message' = "failed"
                   /\ UNCHANGED <<gui_result, gui_output_dir>>
              ELSE /\ gui_result' = signal[2]
                   /\ gui_output_dir' = Some(Val(signal[2]).output_dir)
                   /\ gui_message' = "done"
           /\ gui_runs' = [gui_runs EXCEPT ![signal[1]].state = "handled"]
    /\ gui_signals' = Tail(gui_signals)
    /\ UNCHANGED <<gui_image_path, gui_fs>>
    /\ UNCHANGED notGuiVars

GuiNext ==
    \/ choose_image
    \/ run_pipeline_no_image
    \/ run_pipeline_bad_parameters
    \/ run_pipeline_start
    \/ \E id \in DOMAIN gui_runs : worker_run(id)
    \/ on_finished

SpecGui == GuiInit /\ [][GuiNext]_vars

\* The worker thread runs and the event loop of the main thread delivers
\* the queued signals.
SpecGuiFair ==
    /\ SpecGui
    /\ WF_vars(\E id \in DOMAIN gui_runs : worker_run(id))
    /\ WF_vars(on_finished)

\* The workers started whose finished signal has not been handled.
LiveWorkers == {id \in DOMAIN gui_runs : gui_runs[id].state # "handled"}

\* C28: the outputs of a run are written to the directory derived from the
\* image selected for that run, never into the directory an earlier run on
\* a different image produced.
C28_WritesToOwnDirectory ==
    \A write \in gui_fs : write[1] = <<"outputs", Stem(write[2])>>

\* C29: at most one worker runs at any time and the Run button is disabled
\* from the start of a run until its finished signal has been handled; a
\* run request with no image or with unparsable text starts no worker and
\* leaves the button enabled.
C29_OneWorker ==
    /\ [](Cardinality(LiveWorkers) <= 1 /\ (LiveWorkers # {} => ~btn_run_enabled))
    /\ [][(run_pipeline_no_image \/ run_pipeline_bad_parameters) =>
            (gui_runs' = gui_runs /\ btn_run_enabled')]_vars

\* A second run in progress after the first was handled.
C29_Witness ==
    /\ Len(gui_runs) = 2
    /\ gui_runs[1].state = "handled"
    /\ gui_runs[2].state = "started"
    /\ ~btn_run_enabled

\* C30: every run started is eventually handled with exactly one emission
\* of finished; handling re-enables the Run button; and handling a failure
\* leaves the stored result and output directory unchanged.
C30_FinishedOnce ==
    /\ \A id \in 1..MaxRuns :
          (id \in DOMAIN gui_runs) ~>
              (id \in DOMAIN gui_runs /\ gui_runs[id].state = "handled"
                  /\ gui_runs[id].emitted = 1)
    /\ [](\A id \in DOMAIN gui_runs : gui_runs[id].emitted <= 1)
    /\ [][on_finished => btn_run_enabled']_vars
    /\ [][(on_finished /\ Head(gui_signals)[3] # None) =>
            UNCHANGED <<gui_result, gui_output_dir>>]_vars

\* A failed second run handled while the first run's result is stored.
C30_Witness ==
    /\ Len(gui_runs) = 2
    /\ gui_runs[2].state = "handled"
    /\ gui_message = "failed"
    /\ gui_result # None
    /\ btn_run_enabled

====
